---- MODULE Spec2Model ----
(***************************************************************************)
(* A model of cloudrunify's deployment orchestrator,                       *)
(* CloudRunService in src/src/services/cloudrun.ts: deploy() with its      *)
(* validation, create request, poll loop, IAM step and load-balancer       *)
(* provisioning through the external gcloud tool; destroy() with its       *)
(* load-balancer teardown; getRevisions() and rollback(); and the deploy   *)
(* and destroy commands that run them once per environment.                *)
(*                                                                         *)
(* The methods are async functions.  Every action below is one atomic run  *)
(* of code between two awaits: the action is enabled by the completion of  *)
(* the pending await (pc names it), runs the code up to the next await and *)
(* issues the call that await waits for.                                   *)
(*                                                                         *)
(* Strings are TLA+ strings; a character is a string of length one.        *)
(***************************************************************************)
EXTENDS Integers, Sequences, FiniteSets, TLC

VARIABLES
    config,         \* the CloudRunConfig handed to the running method
    pc,             \* the await the running method is suspended at
    elapsed,        \* Date.now() - startTime, in ms
    serviceDetails, \* the local serviceDetails of deploy()
    status,         \* the local status of deploy()
    calls,          \* the requests issued to the platform API, in order
    cmds,           \* the commands handed to executeCommand, in order
    lb,             \* the locals of setupLoadBalancer
    outcome,        \* the promise the method returned: pending / resolved / rejected
    error,          \* the value the method rejected with
    warnings,       \* what destroy() has written with console.warn, in order
    revision,       \* the revision handed to rollback()
    revisions,      \* the value getRevisions() resolved with
    run,            \* the command's action handler: options, loop and exit
    returned        \* the value ConfigParser.validate returned

vars == <<config, pc, elapsed, serviceDetails, status, calls, cmds, lb, outcome, error,
          warnings, revision, revisions, run, returned>>

(***************************************************************************)
(* Strings and the regular expressions of the validation.                  *)
(***************************************************************************)
CharAt(s, i) == SubSeq(s, i, i)

Digits == {"0", "1", "2", "3", "4", "5", "6", "7", "8", "9"}

LowerCase == {"a", "b", "c", "d", "e", "f", "g", "h", "i", "j", "k", "l", "m",
              "n", "o", "p", "q", "r", "s", "t", "u", "v", "w", "x", "y", "z"}

MemoryUnits == {"K", "M", "G", "T", "P", "E", "Z", "Y",
                "k", "m", "g", "t", "p", "e", "z", "y"}

\* every character of s[lo..hi] is in S, and the range is not empty: S+
SomeAllIn(s, lo, hi, S) ==
    /\ lo <= hi
    /\ \A i \in lo..hi : CharAt(s, i) \in S

\* /^(\d+(\.\d+)?|(\d+m))$/
cpuPattern(s) ==
    \/ SomeAllIn(s, 1, Len(s), Digits)
    \/ \E k \in 1..Len(s) :
          /\ CharAt(s, k) = "."
          /\ SomeAllIn(s, 1, k - 1, Digits)
          /\ SomeAllIn(s, k + 1, Len(s), Digits)
    \/ /\ Len(s) >= 1
       /\ CharAt(s, Len(s)) = "m"
       /\ SomeAllIn(s, 1, Len(s) - 1, Digits)

\* memoryPattern with the unit letter optional
memoryPatternUnitOptional(s) ==
    \E d \in 1..(Len(s) + 1) :
        /\ SomeAllIn(s, 1, d - 1, Digits)
        /\ \/ d <= Len(s) /\ CharAt(s, d) \in MemoryUnits
              /\ SubSeq(s, d + 1, Len(s)) \in {"", "i", "B", "b", "iB", "ib"}
           \/ d = Len(s) + 1

\* /^\d+[KMGTPEZYkmgtpezy]i?[Bb]?$/
memoryPattern(s) ==
    \E d \in 1..Len(s) :
        /\ SomeAllIn(s, 1, d - 1, Digits)
        /\ CharAt(s, d) \in MemoryUnits
        /\ SubSeq(s, d + 1, Len(s)) \in {"", "i", "B", "b", "iB", "ib"}

\* /^[a-z][a-z0-9-]{0,48}[a-z0-9]$/
serviceNamePattern(s) ==
    /\ Len(s) >= 2
    /\ Len(s) - 2 <= 48
    /\ CharAt(s, 1) \in LowerCase
    /\ \A i \in 2..(Len(s) - 1) : CharAt(s, i) \in LowerCase \cup Digits \cup {"-"}
    /\ CharAt(s, Len(s)) \in LowerCase \cup Digits

(***************************************************************************)
(* Errors.  A thrown value is a record: type is the JavaScript class       *)
(* ("Error", "TypeError", "GoogleError" a subclass of Error, "value" for   *)
(* a thrown non-Error), message/details are "" and code is 0 when absent.  *)
(***************************************************************************)
NoError == [type |-> "none", message |-> "", code |-> 0, details |-> ""]

\* no function has returned a value yet
NotReturned == [defined |-> FALSE, value |-> FALSE, thrown |-> NoError]

NewError(msg) == [type |-> "Error", message |-> msg, code |-> 0, details |-> ""]

TypeError(msg) == [type |-> "TypeError", message |-> msg, code |-> 0, details |-> ""]

InstanceOfError(e) == e.type \in {"Error", "TypeError", "GoogleError"}

(***************************************************************************)
(* validateResourceConfig: the error it throws, NoError when it returns.   *)
(***************************************************************************)
CpuFormatMessage ==
    "Invalid CPU format. Must be a number or a millicpu value (e.g., \"1\" or \"1000m\")"

MemoryFormatMessage ==
    "Invalid memory format. Must be a number followed by a unit (e.g., \"256Mi\", \"1Gi\")"

\* x || 0 on a number
OrZero(x) == IF x = 0 THEN 0 ELSE x

validateResourceConfig(c) ==
    IF c.resources.present /\ ~cpuPattern(c.resources.cpu)
    THEN NewError(CpuFormatMessage)
    ELSE IF c.resources.present /\ ~memoryPattern(c.resources.memory)
    THEN NewError(MemoryFormatMessage)
    ELSE IF c.scaling.present /\ c.scaling.min_instances < 0
    THEN NewError("Minimum instances cannot be negative")
    ELSE IF /\ c.scaling.present
            /\ c.scaling.max_instances < OrZero(c.scaling.min_instances)
    THEN NewError("Maximum instances must be greater than or equal to minimum instances")
    ELSE IF \/ (c.scaling.present /\ c.scaling.concurrency < 1)
            \/ (c.scaling.present /\ c.scaling.concurrency > 1000)
    THEN NewError("Concurrency must be between 1 and 1000")
    ELSE NoError

\* the checks of deploy() that precede the create request
InvalidServiceNameMessage(name) ==
    "Invalid service name: \"" \o name
        \o "\". It must start with a letter, end with a letter or digit, and can only contain lowercase letters, digits, and hyphens."

ContainerInvalidMessage ==
    "Container configuration is invalid. Ensure that the image and port are specified."

\* deployValidation without the check of the service name
deployValidationNoNameCheck(c) ==
    IF validateResourceConfig(c) # NoError
    THEN validateResourceConfig(c)
    ELSE IF c.image = "" \/ c.port = 0
    THEN NewError(ContainerInvalidMessage)
    ELSE NoError

deployValidation(c) ==
    IF validateResourceConfig(c) # NoError
    THEN validateResourceConfig(c)
    ELSE IF ~serviceNamePattern(c.name)
    THEN NewError(InvalidServiceNameMessage(c.name))
    ELSE IF c.image = "" \/ c.port = 0
    THEN NewError(ContainerInvalidMessage)
    ELSE NoError

(***************************************************************************)
(* ConfigParser.validate: the boolean it returns, or the error it throws.  *)
(* An absent string is "", an absent number 0, an absent object has        *)
(* present = FALSE, an absent array isArray = FALSE.                       *)
(***************************************************************************)
Returned(value) == [defined |-> TRUE, value |-> value, thrown |-> NoError]

Thrown(e) == [defined |-> TRUE, value |-> FALSE, thrown |-> e]

\* the scaling check with the bound of max_instances left out
scalingRejectedNoMaxCheck(c) ==
    /\ c.scaling.present
    /\ \/ c.scaling.min_instances < 0
       \/ c.scaling.concurrency < 1
       \/ c.scaling.concurrency > 1000

\* the scaling check of validate
scalingRejected(c) ==
    /\ c.scaling.present
    /\ \/ c.scaling.min_instances < 0
       \/ c.scaling.max_instances < c.scaling.min_instances
       \/ c.scaling.concurrency < 1
       \/ c.scaling.concurrency > 1000

\* the condition of validate's loop over env_vars on one entry: "throws"
\* when it reads secretKeyRef of a valueFrom that is null or undefined
envVarCheck(e) ==
    IF e.name = "" THEN "rejected"
    ELSE IF (IF e.hasValueFrom THEN ~e.hasValue /\ ~e.valueFrom.present ELSE e.value = "")
    THEN "rejected"
    ELSE IF e.hasValueFrom /\ ~e.valueFrom.present THEN "throws"
    ELSE IF e.hasValueFrom /\ ~e.valueFrom.secretKeyRef.present THEN "rejected"
    ELSE "accepted"

\* the first entry of env_vars the loop does not accept, 0 when it accepts all
FirstNotAccepted(entries) ==
    IF \A k \in DOMAIN entries : envVarCheck(entries[k]) = "accepted"
    THEN 0
    ELSE CHOOSE k \in DOMAIN entries :
            /\ envVarCheck(entries[k]) # "accepted"
            /\ \A j \in 1..(k - 1) : envVarCheck(entries[j]) = "accepted"

validate(c) ==
    IF c.version = "" \/ c.project_id = "" \/ c.region = ""
    THEN Returned(FALSE)
    ELSE IF c.name = ""
    THEN Returned(FALSE)
    ELSE IF c.image = "" \/ c.port = 0
    THEN Returned(FALSE)
    ELSE IF ~c.resources.present \/ c.resources.cpu = "" \/ c.resources.memory = ""
    THEN Returned(FALSE)
    ELSE IF scalingRejected(c)
    THEN Returned(FALSE)
    ELSE IF ~c.env_vars.isArray
    THEN Returned(FALSE)
    ELSE IF FirstNotAccepted(c.env_vars.entries) # 0
    THEN IF envVarCheck(c.env_vars.entries[FirstNotAccepted(c.env_vars.entries)]) = "throws"
         THEN Thrown(TypeError("Cannot read properties of undefined (reading 'secretKeyRef')"))
         ELSE Returned(FALSE)
    ELSE IF ~c.traffic.isArray
    THEN Returned(FALSE)
    ELSE IF \E env \in {"dev", "staging", "prod"} : ~c.environments[env].present
    THEN Returned(FALSE)
    ELSE IF \E env \in {"dev", "staging", "prod"} :
               c.environments[env].project_id = "" \/ c.environments[env].region = ""
    THEN Returned(FALSE)
    ELSE Returned(TRUE)

(***************************************************************************)
(* The configurations deploy() is run on.                                  *)
(***************************************************************************)
NoResources == [present |-> FALSE, cpu |-> "", memory |-> ""]

NoScaling == [present |-> FALSE, min_instances |-> 0, max_instances |-> 0, concurrency |-> 0]

NoLoadBalancer == [present |-> FALSE, backend_service_name |-> "", existing |-> FALSE]

CpuValues == {"1", "abc", "", "1.5.2", "m", "1.5x"}

MemoryValues == {"256Mi", "256", "Mi", "256MiBs", "2.5Gi"}

ResourcesValues ==
    {NoResources} \cup
    {[present |-> TRUE, cpu |-> c, memory |-> m] : c \in CpuValues, m \in MemoryValues}

ScalingValues ==
    {NoScaling} \cup
    {[present |-> TRUE, min_instances |-> t[1], max_instances |-> t[2], concurrency |-> t[3]] :
        t \in {<<1, 2, 100>>, <<-1, 2, 100>>, <<2, 1, 100>>, <<0, -1, 100>>,
               <<1, 2, 0>>, <<1, 2, 1001>>}}

ServiceNames == {"my-svc", "My-svc", "a", "my-svc-", "9svc", "my_svc"}

LoadBalancerValues ==
    {NoLoadBalancer} \cup
    {[present |-> TRUE, backend_service_name |-> "", existing |-> x] : x \in BOOLEAN}
    \cup {[present |-> TRUE, backend_service_name |-> "shared-backend", existing |-> TRUE]}

\* the tags of type Environment, in the order the commands push them
Environments == <<"dev", "staging", "prod">>

NoEnvironment == [present |-> FALSE, project_id |-> "", region |-> ""]

\* the three environments declared, each with a project and a region of its own
AllEnvironments ==
    [dev |-> [present |-> TRUE, project_id |-> "my-project-dev", region |-> "europe-west1"],
     staging |-> [present |-> TRUE, project_id |-> "my-project-staging", region |-> "us-central1"],
     prod |-> [present |-> TRUE, project_id |-> "my-project-prod", region |-> "us-east1"]]

\* an entry of container.env_vars with a literal value
EnvVar(name, value) ==
    [name |-> name, hasValue |-> TRUE, value |-> value, hasValueFrom |-> FALSE,
     valueFrom |-> [present |-> FALSE, secretKeyRef |-> [present |-> FALSE, name |-> ""]]]

BaseConfig ==
    [version |-> "1", project_id |-> "my-project", region |-> "us-central1",
     environments |-> AllEnvironments,
     env_vars |-> [isArray |-> TRUE, entries |-> <<EnvVar("NODE_ENV", "production")>>],
     secrets |-> <<>>, volumes |-> <<>>,
     traffic |-> [isArray |-> TRUE, entries |-> <<>>],
     name |-> "my-svc", allow_unauthenticated |-> TRUE,
     image |-> "img:latest", port |-> 8080,
     resources |-> [present |-> TRUE, cpu |-> "1", memory |-> "256Mi"],
     scaling |-> [present |-> TRUE, min_instances |-> 1, max_instances |-> 2, concurrency |-> 100],
     load_balancer |-> [present |-> TRUE, backend_service_name |-> "", existing |-> FALSE]]

\* the base configuration with every combination of the two switches of the
\* steps after the poll loop
FlowConfigs ==
    {[BaseConfig EXCEPT !.allow_unauthenticated = a, !.load_balancer = l] :
        a \in BOOLEAN, l \in LoadBalancerValues}

\* the base configuration (unauthenticated access and a new load balancer
\* requested) with every combination of the validated fields
ValidationConfigs ==
    {[BaseConfig EXCEPT !.name = n, !.resources = r, !.scaling = s,
                        !.image = i, !.port = p] :
        n \in ServiceNames, r \in ResourcesValues, s \in ScalingValues,
        i \in {"img:latest", ""}, p \in {8080, 0}}

Configs == FlowConfigs \cup ValidationConfigs

(***************************************************************************)
(* The platform API as deploy() sees it.                                   *)
(***************************************************************************)
MaxConditions == 2

POLLING_TIMEOUT == 10 * 60 * 1000

POLLING_INTERVAL == 5000

\* a condition of a service: its state (an enum value, always present) and
\* its message, "" when absent
ConditionValues ==
    {[state |-> "CONDITION_SUCCEEDED", message |-> ""],
     [state |-> "CONDITION_PENDING", message |-> ""],
     [state |-> "CONDITION_FAILED", message |-> "Image not found"]}

ConditionLists ==
    UNION {[1..n -> ConditionValues] : n \in 0..MaxConditions}

Undefined == [defined |-> FALSE, hasConditions |-> FALSE, conditions |-> <<>>, uri |-> ""]

\* what getService resolves with: nothing, a service without a condition
\* list, a service with a condition list (which may be empty)
GetServiceResponses ==
    {Undefined,
     [defined |-> TRUE, hasConditions |-> FALSE, conditions |-> <<>>, uri |-> ""]}
    \cup {[defined |-> TRUE, hasConditions |-> TRUE, conditions |-> cs,
           uri |-> "https://my-svc.a.run.app"] : cs \in ConditionLists}

\* what a call of the client rejects with: the client library's GoogleError
\* (an Error with a message, a status code and, usually, details), another
\* Error (a network failure), an Error without a message, a thrown non-Error
PlatformErrors ==
    {[type |-> "GoogleError", message |-> "5 NOT_FOUND: Service not found",
      code |-> 5, details |-> "Service not found"],
     [type |-> "GoogleError", message |-> "14 UNAVAILABLE: ", code |-> 14, details |-> ""],
     [type |-> "Error", message |-> "socket hang up", code |-> 0, details |-> ""],
     [type |-> "Error", message |-> "", code |-> 0, details |-> ""],
     [type |-> "value", message |-> "", code |-> 0, details |-> ""]}

\* what createService rejects with: any of the above, or the platform's
\* answer to a create of a name that is taken
CreateErrors ==
    PlatformErrors
        \cup {[type |-> "GoogleError", message |-> "6 ALREADY_EXISTS: Service already exists",
               code |-> 6, details |-> "Service already exists"]}

\* what executeCommand rejects with: child_process's error of a failed command
CommandError(cmd) ==
    [type |-> "Error",
     message |-> "Command failed: gcloud compute " \o cmd.group \o " " \o cmd.verb,
     code |-> 1, details |-> ""]

JSONStringify(e) ==
    IF e.code # 0 THEN "{\"code\":" \o ToString(e.code) \o "}" ELSE "{}"

\* formatError without the branch of the structured error
formatErrorMessageOnly(e) ==
    IF e.message # ""
    THEN e.message
    ELSE "Deployment failed: " \o JSONStringify(e)

formatError(e) ==
    IF e.code # 0 /\ e.details # ""
    THEN "Error (" \o ToString(e.code) \o "): " \o e.details
    ELSE IF e.message # ""
    THEN e.message
    ELSE "Deployment failed: " \o JSONStringify(e)

location(c) == "projects/" \o c.project_id \o "/locations/" \o c.region

servicePath(c) == location(c) \o "/services/" \o c.name

\* a request to the platform: result is "pending" while it is awaited, then
\* "ok" or "error", and thrown the value it rejected with
Call(api, resource, detail) ==
    [api |-> api, resource |-> resource, detail |-> detail,
     result |-> "pending", thrown |-> NoError]

\* the log with its last, pending, request settled
CallDone(log, result, thrown) ==
    [log EXCEPT ![Len(log)] = [@ EXCEPT !.result = result, !.thrown = thrown]]

(***************************************************************************)
(* The service deploy() builds from the configuration.  A key the code     *)
(* leaves out of an object has present = FALSE; an undefined string is "". *)
(***************************************************************************)
UpperCase == {"A", "B", "C", "D", "E", "F", "G", "H", "I", "J", "K", "L", "M",
              "N", "O", "P", "Q", "R", "S", "T", "U", "V", "W", "X", "Y", "Z"}

\* [a-zA-Z0-9_-]
NameChars == LowerCase \cup UpperCase \cup Digits \cup {"_", "-"}

\* sanitize without the g flag: the first such character only is replaced
sanitizeFirstOnly(name) ==
    LET outside == {i \in 1..Len(name) : CharAt(name, i) \notin NameChars}
    IN  IF outside = {}
        THEN name
        ELSE LET k == CHOOSE i \in outside : \A j \in outside : i <= j
             IN  SubSeq(name, 1, k - 1) \o "_" \o SubSeq(name, k + 1, Len(name))

\* name.replace(/[^a-zA-Z0-9_-]/g, "_")
RECURSIVE sanitize(_)
sanitize(name) ==
    IF name = ""
    THEN ""
    ELSE (IF CharAt(name, 1) \in NameChars THEN CharAt(name, 1) ELSE "_")
            \o sanitize(SubSeq(name, 2, Len(name)))

createVolumeMounts(secrets) ==
    [k \in DOMAIN secrets |->
        [name |-> secrets[k].name,
         mountPath |-> IF secrets[k].mount_path # ""
                       THEN secrets[k].mount_path
                       ELSE "/secrets/" \o secrets[k].name,
         readOnly |-> TRUE]]

createVolumeMountsFromVolumes(volumes) ==
    [k \in DOMAIN volumes |->
        [name |-> volumes[k].name,
         mountPath |-> volumes[k].path,
         readOnly |-> volumes[k].type = "read-only"]]

\* the volumeMounts key of the container with the second spread left out
volumeMountsFirstSpreadOnly(secrets, volumes) ==
    IF Len(secrets) > 0
    THEN [present |-> TRUE, entries |-> createVolumeMounts(secrets)]
    ELSE [present |-> FALSE, entries |-> <<>>]

\* the volumeMounts key of the container: the spread for the secrets, then
\* the spread for the volumes, which replaces the key
volumeMounts(secrets, volumes) ==
    IF Len(volumes) > 0
    THEN [present |-> TRUE,
          entries |-> createVolumeMounts(secrets) \o createVolumeMountsFromVolumes(volumes)]
    ELSE IF Len(secrets) > 0
    THEN [present |-> TRUE, entries |-> createVolumeMounts(secrets)]
    ELSE [present |-> FALSE, entries |-> <<>>]

volumeDefinition(volume) ==
    IF volume.bucket # ""
    THEN [name |-> volume.name, gcs |-> [bucket |-> volume.bucket]]
    ELSE [name |-> volume.name, persistentVolumeClaim |-> [claimName |-> volume.name]]

\* createVolumes with the secret referred to by its name as declared
createVolumesRawReference(secrets, volumes) ==
    [k \in DOMAIN secrets |->
        [name |-> sanitize(secrets[k].name),
         secret |-> [secret |-> secrets[k].name]]]
    \o [k \in DOMAIN volumes |-> volumeDefinition(volumes[k])]

createVolumes(secrets, volumes) ==
    [k \in DOMAIN secrets |->
        [name |-> sanitize(secrets[k].name),
         secret |-> [secret |-> sanitize(secrets[k].name)]]]
    \o [k \in DOMAIN volumes |-> volumeDefinition(volumes[k])]

\* createTrafficConfiguration with the targets of percent 0 dropped
createTrafficConfigurationDropsZero(traffic) ==
    LET kept == SelectSeq(traffic, LAMBDA target : target.percent # 0)
    IN  [k \in DOMAIN kept |->
            [revision |-> kept[k].revision, percent |-> kept[k].percent, tag |-> kept[k].tag]]

createTrafficConfiguration(traffic) ==
    [k \in DOMAIN traffic |->
        [revision |-> traffic[k].revision,
         percent |-> traffic[k].percent,
         tag |-> traffic[k].tag]]

\* the env key of the container
containerEnv(envVars) ==
    IF Len(envVars) > 0
    THEN [present |-> TRUE,
          entries |-> [k \in DOMAIN envVars |->
                          [name |-> envVars[k].name, value |-> envVars[k].value]]]
    ELSE [present |-> FALSE, entries |-> <<>>]

\* the object literal `service` of deploy()
Service(c) ==
    LET envVars == IF c.env_vars.isArray THEN c.env_vars.entries ELSE <<>>
        secrets == c.secrets
        volumes == c.volumes
    IN  [template |->
            [containers |->
                <<[image |-> c.image,
                   ports |-> <<[containerPort |-> c.port]>>,
                   resources |-> [present |-> c.resources.present,
                                  limits |-> [cpu |-> c.resources.cpu,
                                              memory |-> c.resources.memory]],
                   env |-> containerEnv(envVars),
                   volumeMounts |-> volumeMounts(secrets, volumes)]>>,
             scaling |-> [present |-> c.scaling.present,
                          minInstanceCount |-> c.scaling.min_instances,
                          maxInstanceCount |-> c.scaling.max_instances,
                          concurrency |-> c.scaling.concurrency],
             volumes |-> createVolumes(secrets, volumes)],
         traffic |-> createTrafficConfiguration(
                         IF c.traffic.isArray THEN c.traffic.entries ELSE <<>>)]

\* the create request: parent, serviceId and the service built
CreateServiceCall(c) ==
    [api |-> "createService", resource |-> location(c), detail |-> c.name,
     service |-> Service(c), result |-> "pending", thrown |-> NoError]

GetServiceCall(c) == Call("getService", servicePath(c), "")

SetIamPolicyCall(c) == Call("setIamPolicy", servicePath(c), "roles/run.invoker:allUsers")

(***************************************************************************)
(* The string functions setupLoadBalancer parses command output with.      *)
(***************************************************************************)
IsWhitespace(ch) == ch \in {" ", "\t", "\n", "\r"}

RECURSIVE trimStart(_)
trimStart(s) ==
    IF Len(s) > 0 /\ IsWhitespace(CharAt(s, 1))
    THEN trimStart(SubSeq(s, 2, Len(s)))
    ELSE s

RECURSIVE trimEnd(_)
trimEnd(s) ==
    IF Len(s) > 0 /\ IsWhitespace(CharAt(s, Len(s)))
    THEN trimEnd(SubSeq(s, 1, Len(s) - 1))
    ELSE s

\* String.prototype.trim
trim(s) == trimEnd(trimStart(s))

\* String.prototype.includes
includes(s, sub) ==
    \E i \in 1..(Len(s) - Len(sub) + 1) : SubSeq(s, i, i + Len(sub) - 1) = sub

\* the least index among the indices I of s, Len(s) + 1 when I is empty
Least(s, I) ==
    IF I = {} THEN Len(s) + 1 ELSE CHOOSE i \in I : \A j \in I : i <= j

\* s.split(ch) for a one-character separator
RECURSIVE split(_, _)
split(s, ch) ==
    LET k == Least(s, {i \in 1..Len(s) : CharAt(s, i) = ch})
    IN  IF k > Len(s)
        THEN <<s>>
        ELSE <<SubSeq(s, 1, k - 1)>> \o split(SubSeq(s, k + 1, Len(s)), ch)

\* s.split(/\s+/): k is where the first run of whitespace starts, j where it ends
RECURSIVE splitWhitespace(_)
splitWhitespace(s) ==
    LET k == Least(s, {i \in 1..Len(s) : IsWhitespace(CharAt(s, i))})
        j == Least(s, {i \in k..Len(s) : ~IsWhitespace(CharAt(s, i))})
    IN  IF k > Len(s)
        THEN <<s>>
        ELSE <<SubSeq(s, 1, k - 1)>> \o splitWhitespace(SubSeq(s, j, Len(s)))

\* Array.prototype.pop on a non-empty array
pop(a) == a[Len(a)]

\* rules.find(rule => rule.includes('test-lb') || rule.includes('http-proxy')):
\* the index of the first such line, 0 when there is none
IsTargetRule(rule) == includes(rule, "test-lb") \/ includes(rule, "http-proxy")

findTargetRule(rules) ==
    IF \E i \in 1..Len(rules) : IsTargetRule(rules[i])
    THEN CHOOSE i \in 1..Len(rules) :
            /\ IsTargetRule(rules[i])
            /\ \A j \in 1..(i - 1) : ~IsTargetRule(rules[j])
    ELSE 0

(***************************************************************************)
(* setupLoadBalancer: the names it derives and the commands it runs.  A    *)
(* command is the resource group, the verb, the resource name and the      *)
(* flags of one `gcloud compute` invocation.                               *)
(***************************************************************************)
negName(c) == c.name \o "-neg"

newBackendServiceName(c) ==
    IF c.load_balancer.backend_service_name # ""
    THEN c.load_balancer.backend_service_name
    ELSE c.name \o "-backend-service"

urlMapName(c) == c.name \o "-url-map"

targetProxyName(c) == c.name \o "-target-proxy"

forwardingRuleName(c) == c.name \o "-forwarding-rule"

ipAddressName(c) == c.name \o "-ip"

\* result is "pending" while executeCommand is awaited, then "ok" (with the
\* command's stdout) or "failed"
Cmd(group, verb, name, flags) ==
    [group |-> group, verb |-> verb, name |-> name, flags |-> flags,
     result |-> "pending", stdout |-> ""]

\* the log with its last, pending, command settled
CommandDone(log, result, stdout) ==
    [log EXCEPT ![Len(log)] = [@ EXCEPT !.result = result, !.stdout = stdout]]

\* the command of each step; l holds the names the attach path has resolved
Command(step, c, l) ==
    CASE step = "neg" ->
            Cmd("network-endpoint-groups", "create", negName(c),
                "--region=" \o c.region
                    \o " --network-endpoint-type=serverless --cloud-run-service=" \o c.name)
      [] step = "backend" ->
            Cmd("backend-services", "create", newBackendServiceName(c),
                "--global --load-balancing-scheme=EXTERNAL_MANAGED --port-name=http --protocol=HTTP")
      [] step = "attach" ->
            Cmd("backend-services", "add-backend", newBackendServiceName(c),
                "--global --network-endpoint-group=" \o negName(c)
                    \o " --network-endpoint-group-region=" \o c.region)
      [] step = "listTable" ->
            Cmd("forwarding-rules", "list", "", "--format=\"table(name,target)\"")
      [] step = "listGet" ->
            Cmd("forwarding-rules", "list", "", "--format=\"get(name,target)\"")
      [] step = "describeProxy" ->
            Cmd("target-http-proxies", "describe", l.proxyName,
                "--format=\"get(urlMap)\" --global")
      [] step = "setDefault" ->
            Cmd("url-maps", "set-default-service", l.urlMapName,
                "--global --default-service=" \o newBackendServiceName(c))
      [] step = "address" ->
            Cmd("addresses", "create", ipAddressName(c), "--global --ip-version=IPV4")
      [] step = "describeAddress" ->
            Cmd("addresses", "describe", ipAddressName(c),
                "--global --format=\"get(address)\"")
      [] step = "urlMap" ->
            Cmd("url-maps", "create", urlMapName(c),
                "--global --default-service=" \o newBackendServiceName(c))
      [] step = "proxy" ->
            Cmd("target-http-proxies", "create", targetProxyName(c),
                "--url-map=" \o urlMapName(c) \o " --global")
      [] step = "rule" ->
            Cmd("forwarding-rules", "create", forwardingRuleName(c),
                "--load-balancing-scheme=EXTERNAL_MANAGED --network-tier=PREMIUM --address="
                    \o ipAddressName(c) \o " --target-http-proxy=" \o targetProxyName(c)
                    \o " --global --ports=80")

\* NextStep with the URL map created before the address is reserved
NextStepUrlMapFirst(step, existing) ==
    CASE step = "neg" -> "backend"
      [] step = "backend" -> "attach"
      [] step = "attach" -> IF existing THEN "listTable" ELSE "urlMap"
      [] step = "listTable" -> "listGet"
      [] step = "setDefault" -> "end"
      [] step = "urlMap" -> "address"
      [] step = "address" -> "describeAddress"
      [] step = "describeAddress" -> "proxy"
      [] step = "proxy" -> "rule"
      [] step = "rule" -> "end"

\* NextStep with the `existing` switch ignored: a new chain is always created
NextStepIgnoresExisting(step, existing) ==
    CASE step = "neg" -> "backend"
      [] step = "backend" -> "attach"
      [] step = "attach" -> "address"
      [] step = "listTable" -> "listGet"
      [] step = "setDefault" -> "end"
      [] step = "address" -> "describeAddress"
      [] step = "describeAddress" -> "urlMap"
      [] step = "urlMap" -> "proxy"
      [] step = "proxy" -> "rule"
      [] step = "rule" -> "end"

\* the step whose command follows when a step's command has succeeded and
\* its output needs no parsing; "end" when setupLoadBalancer returns
NextStep(step, existing) ==
    CASE step = "neg" -> "backend"
      [] step = "backend" -> "attach"
      [] step = "attach" -> IF existing THEN "listTable" ELSE "address"
      [] step = "listTable" -> "listGet"
      [] step = "setDefault" -> "end"
      [] step = "address" -> "describeAddress"
      [] step = "describeAddress" -> "urlMap"
      [] step = "urlMap" -> "proxy"
      [] step = "proxy" -> "rule"
      [] step = "rule" -> "end"

\* stdout of `forwarding-rules list --format="get(name,target)"`
ForwardingRulesOutputs ==
    {"",
     "\n",
     "test-lb-rule\tglobal/targetHttpProxies/web-proxy\n",
     "web-rule\tglobal/targetHttpProxies/web-proxy\n",
     "web-rule\tglobal/targetHttpProxies/web-proxy\nfront\tglobal/targetHttpProxies/my-http-proxy\n",
     "test-lb-rule\n"}

\* stdout of `target-http-proxies describe --format="get(urlMap)"`
UrlMapOutputs == {"global/urlMaps/web-map\n", "\n", "global/urlMaps/"}

\* stdout of `addresses describe --format="get(address)"`
AddressOutputs == {"34.120.0.7\n"}

NoLb == [step |-> "", proxyName |-> "", urlMapName |-> "", ipAddress |-> ""]

\* no command is running: a method of the service is called on its own
NoRun ==
    [command |-> "none", allEnvs |-> FALSE, rollback |-> FALSE, env |-> "dev",
     baseConfig |-> BaseConfig, envsToProcess |-> <<>>, i |-> 0, at |-> "idle",
     exitCode |-> -1, reports |-> <<>>]

(***************************************************************************)
(* deploy().                                                               *)
(***************************************************************************)
Init ==
    /\ config \in Configs
    /\ pc = "start"
    /\ elapsed = 0
    /\ serviceDetails = Undefined
    /\ status = "UNKNOWN"
    /\ calls = <<>>
    /\ cmds = <<>>
    /\ lb = NoLb
    /\ outcome = "pending"
    /\ error = NoError
    /\ warnings = <<>>
    /\ revision = ""
    /\ revisions = <<>>
    /\ returned = NotReturned
    /\ run = NoRun

(***************************************************************************)
(* The ways a run of deploy()'s code ends.  cs and cm are the two logs     *)
(* with the request or command that has just completed settled.            *)
(***************************************************************************)
\* deploy() throws e (every catch block on the way rethrows what it caught)
Reject(e, cs, cm) ==
    /\ pc' = "done"
    /\ outcome' = "rejected"
    /\ error' = e
    /\ calls' = cs
    /\ cmds' = cm
    /\ UNCHANGED lb

\* deploy() returns
Resolve(cs, cm) ==
    /\ pc' = "done"
    /\ outcome' = "resolved"
    /\ calls' = cs
    /\ cmds' = cm
    /\ UNCHANGED <<lb, error>>

\* deploy() issues a request to the platform and awaits it
IssueCall(call, await, cs) ==
    /\ calls' = Append(cs, call)
    /\ pc' = await
    /\ UNCHANGED <<cmds, lb, outcome, error>>

\* setupLoadBalancer hands the command of a step to executeCommand and awaits it
IssueCommand(step, l, cs, cm) ==
    /\ lb' = [l EXCEPT !.step = step]
    /\ cmds' = Append(cm, Command(step, config, l))
    /\ calls' = cs
    /\ pc' = "executeCommand"
    /\ UNCHANGED <<outcome, error>>

\* a timer is awaited
Sleep(timer, cs) ==
    /\ pc' = timer
    /\ calls' = cs
    /\ UNCHANGED <<cmds, lb, outcome, error>>

TimeoutMessage(c) ==
    "Service " \o c.name \o " deployment timed out after "
        \o ToString(POLLING_TIMEOUT \div 1000) \o " seconds"

\* the error of the timeout branch: the Error it builds, or the TypeError of
\* reading .state of conditions[conditions.length - 1] of an empty list
TimeoutError(c, sd) ==
    IF sd.defined /\ sd.hasConditions
    THEN IF sd.conditions = <<>>
         THEN TypeError("Cannot read properties of undefined (reading 'state')")
         ELSE LET lastCondition == sd.conditions[Len(sd.conditions)]
              IN  NewError(TimeoutMessage(c)
                        \o "\nLast known status: " \o lastCondition.state
                        \o (IF lastCondition.message # ""
                            THEN "\nMessage: " \o lastCondition.message
                            ELSE ""))
    ELSE NewError(TimeoutMessage(c))

\* the head of the poll loop, run with the clock at `now`: the timeout check,
\* then the status read
LoopHead(now) ==
    IF now > POLLING_TIMEOUT
    THEN Reject(TimeoutError(config, serviceDetails), calls, cmds)
    ELSE IssueCall(GetServiceCall(config), "getService", calls)

\* setupLoadBalancer starts, when a load balancer is configured; then the
\* service URL is printed and deploy() returns
AfterIam(cs) ==
    IF config.load_balancer.present
    THEN IssueCommand("neg", NoLb, cs, cmds)
    ELSE Resolve(cs, cmds)

\* AfterLoop with the allow_unauthenticated switch ignored
AfterLoopAlwaysIam(cs) ==
    IssueCall(SetIamPolicyCall(config), "setIamPolicy", cs)

\* AfterLoop with the IAM step left out
AfterLoopNoIam(cs) == AfterIam(cs)

\* the code after the poll loop
AfterLoop(cs) ==
    IF config.allow_unauthenticated
    THEN IssueCall(SetIamPolicyCall(config), "setIamPolicy", cs)
    ELSE AfterIam(cs)

\* deploy() is called: validation, then the create request
Deploy ==
    /\ pc = "start"
    /\ IF deployValidation(config) # NoError
       THEN Reject(deployValidation(config), calls, cmds)
       ELSE IssueCall(CreateServiceCall(config), "createService", calls)
    /\ UNCHANGED <<config, elapsed, serviceDetails, status>>
    /\ UNCHANGED <<warnings, revision, revisions, run, returned>>

\* CreateServiceRejects with a fallback: a create refused because the name
\* is taken is followed by an update request on the service
CreateServiceRejectsFallsBackToUpdate ==
    /\ pc = "createService"
    /\ \E e \in CreateErrors :
          IF e.code = 6
          THEN IssueCall(Call("updateService", servicePath(config), ""), "createService",
                         CallDone(calls, "error", e))
          ELSE Reject(e, CallDone(calls, "error", e), cmds)
    /\ UNCHANGED <<config, elapsed, serviceDetails, status>>
    /\ UNCHANGED <<warnings, revision, revisions, run, returned>>

\* CreateServiceRejects with the error formatted as in the poll loop
CreateServiceRejectsFormatted ==
    /\ pc = "createService"
    /\ \E e \in CreateErrors :
          Reject(NewError(formatError(e)), CallDone(calls, "error", e), cmds)
    /\ UNCHANGED <<config, elapsed, serviceDetails, status>>
    /\ UNCHANGED <<warnings, revision, revisions, run, returned>>

\* the create request fails: the outer catch rethrows what it caught
CreateServiceRejects ==
    /\ pc = "createService"
    /\ \E e \in CreateErrors : Reject(e, CallDone(calls, "error", e), cmds)
    /\ UNCHANGED <<config, elapsed, serviceDetails, status>>
    /\ UNCHANGED <<warnings, revision, revisions, run, returned>>

\* the create request is accepted: the 2 s settle delay starts
CreateServiceResolves ==
    /\ pc = "createService"
    /\ Sleep("settle", CallDone(calls, "ok", NoError))
    /\ UNCHANGED <<config, elapsed, serviceDetails, status>>
    /\ UNCHANGED <<warnings, revision, revisions, run, returned>>

\* the settle delay is over: startTime is taken and the loop is entered
SettleDelayOver ==
    /\ pc = "settle"
    /\ elapsed' = 0
    /\ LoopHead(elapsed')
    /\ UNCHANGED <<config, serviceDetails, status>>
    /\ UNCHANGED <<warnings, revision, revisions, run, returned>>

\* conditions[0]?.state || "UNKNOWN"
FirstState(conditions) ==
    IF Len(conditions) > 0 /\ conditions[1].state # ""
    THEN conditions[1].state
    ELSE "UNKNOWN"

\* GetServiceResolves with a read without conditions ending deploy()
GetServiceResolvesNothingPublishedFails ==
    /\ pc = "getService"
    /\ \E d \in GetServiceResponses :
          /\ serviceDetails' = d
          /\ IF ~d.defined \/ ~d.hasConditions
             THEN /\ Reject(NewError("Service details are not available"),
                            CallDone(calls, "ok", NoError), cmds)
                  /\ UNCHANGED status
             ELSE /\ status' = FirstState(d.conditions)
                  /\ IF status' = "CONDITION_SUCCEEDED"
                     THEN AfterLoop(CallDone(calls, "ok", NoError))
                     ELSE Sleep("pollInterval", CallDone(calls, "ok", NoError))
    /\ UNCHANGED <<config, elapsed>>
    /\ UNCHANGED <<warnings, revision, revisions, run, returned>>

\* GetServiceResolves with a failed condition ending deploy()
GetServiceResolvesFailsFast ==
    /\ pc = "getService"
    /\ \E d \in GetServiceResponses :
          /\ serviceDetails' = d
          /\ IF ~d.defined \/ ~d.hasConditions
             THEN /\ Sleep("pollInterval", CallDone(calls, "ok", NoError))
                  /\ UNCHANGED status
             ELSE /\ status' = FirstState(d.conditions)
                  /\ IF status' = "CONDITION_SUCCEEDED"
                     THEN AfterLoop(CallDone(calls, "ok", NoError))
                     ELSE IF status' = "CONDITION_FAILED"
                     THEN Reject(NewError("Deployment failed"),
                                 CallDone(calls, "ok", NoError), cmds)
                     ELSE Sleep("pollInterval", CallDone(calls, "ok", NoError))
    /\ UNCHANGED <<config, elapsed>>
    /\ UNCHANGED <<warnings, revision, revisions, run, returned>>

\* the status read returns d
GetServiceResolves ==
    /\ pc = "getService"
    /\ \E d \in GetServiceResponses :
          /\ serviceDetails' = d
          /\ IF ~d.defined \/ ~d.hasConditions
             THEN /\ Sleep("pollInterval", CallDone(calls, "ok", NoError))
                  /\ UNCHANGED status
             ELSE /\ status' = FirstState(d.conditions)
                  /\ IF status' = "CONDITION_SUCCEEDED"
                     THEN AfterLoop(CallDone(calls, "ok", NoError))
                     ELSE Sleep("pollInterval", CallDone(calls, "ok", NoError))
    /\ UNCHANGED <<config, elapsed>>
    /\ UNCHANGED <<warnings, revision, revisions, run, returned>>

\* the error deploy() throws when the status read has thrown e
ReadFailure(e) ==
    IF InstanceOfError(e) /\ e.message # ""
    THEN NewError(formatError(e))
    ELSE e

\* GetServiceRejects retrying an error that has no code and details
GetServiceRejectsRetries ==
    /\ pc = "getService"
    /\ \E e \in PlatformErrors :
          IF e.code # 0 /\ e.details # ""
          THEN Reject(ReadFailure(e), CallDone(calls, "error", e), cmds)
          ELSE Sleep("pollInterval", CallDone(calls, "error", e))
    /\ UNCHANGED <<config, elapsed, serviceDetails, status>>
    /\ UNCHANGED <<warnings, revision, revisions, run, returned>>

\* the status read throws e
GetServiceRejects ==
    /\ pc = "getService"
    /\ \E e \in PlatformErrors :
          Reject(ReadFailure(e), CallDone(calls, "error", e), cmds)
    /\ UNCHANGED <<config, elapsed, serviceDetails, status>>
    /\ UNCHANGED <<warnings, revision, revisions, run, returned>>

\* the poll interval is over: back to the head of the loop
PollIntervalOver ==
    /\ pc = "pollInterval"
    /\ elapsed' = elapsed + POLLING_INTERVAL
    /\ LoopHead(elapsed')
    /\ UNCHANGED <<config, serviceDetails, status>>
    /\ UNCHANGED <<warnings, revision, revisions, run, returned>>

SetIamPolicyResolves ==
    /\ pc = "setIamPolicy"
    /\ AfterIam(CallDone(calls, "ok", NoError))
    /\ UNCHANGED <<config, elapsed, serviceDetails, status>>
    /\ UNCHANGED <<warnings, revision, revisions, run, returned>>

\* SetIamPolicyRejects as a best-effort step: the error is dropped
SetIamPolicyRejectsBestEffort ==
    /\ pc = "setIamPolicy"
    /\ \E e \in PlatformErrors : AfterIam(CallDone(calls, "error", e))
    /\ UNCHANGED <<config, elapsed, serviceDetails, status>>
    /\ UNCHANGED <<warnings, revision, revisions, run, returned>>

\* allowUnauthenticated rethrows what setIamPolicy threw
SetIamPolicyRejects ==
    /\ pc = "setIamPolicy"
    /\ \E e \in PlatformErrors : Reject(e, CallDone(calls, "error", e), cmds)
    /\ UNCHANGED <<config, elapsed, serviceDetails, status>>
    /\ UNCHANGED <<warnings, revision, revisions, run, returned>>

(***************************************************************************)
(* setupLoadBalancer, one action per completion of executeCommand.         *)
(***************************************************************************)
\* CommandFails with the failure taken as a warning
CommandFailsSwallowed ==
    /\ pc = "executeCommand"
    /\ Resolve(calls, CommandDone(cmds, "failed", ""))
    /\ UNCHANGED <<config, elapsed, serviceDetails, status>>
    /\ UNCHANGED <<warnings, revision, revisions, run, returned>>

\* executeCommand rejects: the error leaves setupLoadBalancer and deploy()
CommandFails ==
    /\ pc = "executeCommand"
    /\ Reject(CommandError(cmds[Len(cmds)]), calls, CommandDone(cmds, "failed", ""))
    /\ UNCHANGED <<config, elapsed, serviceDetails, status>>
    /\ UNCHANGED <<warnings, revision, revisions, run, returned>>

\* a command whose output is not parsed has succeeded: the next command is
\* run, or setupLoadBalancer returns and deploy() with it
CommandSucceeds ==
    /\ pc = "executeCommand"
    /\ lb.step \in {"neg", "backend", "attach", "listTable", "setDefault",
                    "address", "urlMap", "proxy", "rule"}
    /\ LET next == NextStep(lb.step, config.load_balancer.existing)
           cm == CommandDone(cmds, "ok", "")
       IN  IF next = "end" THEN Resolve(calls, cm) ELSE IssueCommand(next, lb, calls, cm)
    /\ UNCHANGED <<config, elapsed, serviceDetails, status>>
    /\ UNCHANGED <<warnings, revision, revisions, run, returned>>

\* the reserved address is read back
DescribeAddressSucceeds ==
    /\ pc = "executeCommand"
    /\ lb.step = "describeAddress"
    /\ \E out \in AddressOutputs :
          IssueCommand(NextStep(lb.step, config.load_balancer.existing),
                       [lb EXCEPT !.ipAddress = out],
                       calls, CommandDone(cmds, "ok", out))
    /\ UNCHANGED <<config, elapsed, serviceDetails, status>>
    /\ UNCHANGED <<warnings, revision, revisions, run, returned>>

\* const [ruleName, targetProxy] = targetRule.split(/\s+/): targetProxy, ""
\* when the line has one field only
TargetProxyOf(targetRule) ==
    LET fields == splitWhitespace(targetRule)
    IN  IF Len(fields) >= 2 THEN fields[2] ELSE ""

\* the forwarding rules are listed: the rule is picked and its proxy named
ListForwardingRulesSucceeds ==
    /\ pc = "executeCommand"
    /\ lb.step = "listGet"
    /\ \E forwardingRules \in ForwardingRulesOutputs :
          LET cm == CommandDone(cmds, "ok", forwardingRules)
          IN  IF trim(forwardingRules) = ""
              THEN Reject(NewError("No forwarding rules found"), calls, cm)
              ELSE LET rules == split(trim(forwardingRules), "\n")
                       found == findTargetRule(rules)
                   IN  IF found = 0
                       THEN Reject(NewError("Could not find appropriate forwarding rule"),
                                   calls, cm)
                       ELSE IF TargetProxyOf(rules[found]) = ""
                       THEN Reject(NewError("Could not find target proxy for the load balancer"),
                                   calls, cm)
                       ELSE IssueCommand("describeProxy",
                                [lb EXCEPT !.proxyName =
                                    pop(split(TargetProxyOf(rules[found]), "/"))],
                                calls, cm)
    /\ UNCHANGED <<config, elapsed, serviceDetails, status>>
    /\ UNCHANGED <<warnings, revision, revisions, run, returned>>

\* DescribeProxySucceeds without the check of the URL map's name
DescribeProxySucceedsUnchecked ==
    /\ pc = "executeCommand"
    /\ lb.step = "describeProxy"
    /\ \E urlMapInfo \in UrlMapOutputs :
          IssueCommand("setDefault",
                       [lb EXCEPT !.urlMapName = pop(split(trim(urlMapInfo), "/"))],
                       calls, CommandDone(cmds, "ok", urlMapInfo))
    /\ UNCHANGED <<config, elapsed, serviceDetails, status>>
    /\ UNCHANGED <<warnings, revision, revisions, run, returned>>

\* the proxy is described: its URL map is named and repointed
DescribeProxySucceeds ==
    /\ pc = "executeCommand"
    /\ lb.step = "describeProxy"
    /\ \E urlMapInfo \in UrlMapOutputs :
          LET name == pop(split(trim(urlMapInfo), "/"))
              cm == CommandDone(cmds, "ok", urlMapInfo)
          IN  IF name = ""
              THEN Reject(NewError("Could not find URL map for the load balancer"), calls, cm)
              ELSE IssueCommand("setDefault", [lb EXCEPT !.urlMapName = name], calls, cm)
    /\ UNCHANGED <<config, elapsed, serviceDetails, status>>
    /\ UNCHANGED <<warnings, revision, revisions, run, returned>>

Next ==
    \/ Deploy
    \/ CreateServiceRejects
    \/ CreateServiceResolves
    \/ SettleDelayOver
    \/ GetServiceResolves
    \/ GetServiceRejects
    \/ PollIntervalOver
    \/ SetIamPolicyResolves
    \/ SetIamPolicyRejects
    \/ CommandFails
    \/ CommandSucceeds
    \/ DescribeAddressSucceeds
    \/ ListForwardingRulesSucceeds
    \/ DescribeProxySucceeds

Spec == Init /\ [][Next]_vars

\* deploy() on a runtime that resumes every await that has completed: a timer
\* fires, a request or a command is answered or fails
SpecFair == Init /\ [][Next]_vars /\ WF_vars(Next)

(***************************************************************************)
(* deploy() on configurations that declare a traffic split.                *)
(***************************************************************************)
TrafficTarget(r, p, t) == [revision |-> r, percent |-> p, tag |-> t]

\* the traffic key absent, an empty list, and lists whose percentages sum to
\* 100, to less and to more, one with a target of 0 percent
TrafficValues ==
    {[isArray |-> FALSE, entries |-> <<>>]} \cup
    {[isArray |-> TRUE, entries |-> l] :
        l \in {<<>>,
               <<TrafficTarget("rev-1", 100, "")>>,
               <<TrafficTarget("rev-1", 60, ""), TrafficTarget("rev-2", 30, "canary")>>,
               <<TrafficTarget("rev-2", 30, "canary"), TrafficTarget("rev-1", 60, "")>>,
               <<TrafficTarget("rev-1", 100, ""), TrafficTarget("rev-2", 0, "canary")>>,
               <<TrafficTarget("rev-1", 60, ""), TrafficTarget("rev-2", 60, "")>>}}

\* every traffic value on the base configuration without a load balancer,
\* and one split on the configurations with a new and with an existing one
TrafficConfigs ==
    {[BaseConfig EXCEPT !.traffic = t, !.load_balancer = NoLoadBalancer] : t \in TrafficValues}
    \cup {[BaseConfig EXCEPT
              !.traffic = [isArray |-> TRUE,
                           entries |-> <<TrafficTarget("rev-1", 60, ""),
                                         TrafficTarget("rev-2", 30, "canary")>>],
              !.load_balancer = [present |-> TRUE, backend_service_name |-> "",
                                 existing |-> x]] : x \in BOOLEAN}

InitTraffic ==
    /\ config \in TrafficConfigs
    /\ pc = "start"
    /\ elapsed = 0
    /\ serviceDetails = Undefined
    /\ status = "UNKNOWN"
    /\ calls = <<>>
    /\ cmds = <<>>
    /\ lb = NoLb
    /\ outcome = "pending"
    /\ error = NoError
    /\ warnings = <<>>
    /\ revision = ""
    /\ revisions = <<>>
    /\ returned = NotReturned
    /\ run = NoRun

SpecTraffic == InitTraffic /\ [][Next]_vars

(***************************************************************************)
(* deploy() up to its create request, on configurations that declare       *)
(* secrets and volumes: the service it builds.                             *)
(***************************************************************************)
MaxSecrets == 2

MaxVolumes == 2

Secret(name, mount_path) == [name |-> name, version |-> "latest", mount_path |-> mount_path]

\* secrets with and without a mount path, with names inside and outside of
\* [a-zA-Z0-9_-]
SecretValues ==
    {Secret("db-pass", ""), Secret("db.password", "/etc/creds"), Secret("db_password", ""),
     Secret("api key", ""), Secret("TOKEN_1", "/run/token")}

SecretLists == UNION {[1..n -> SecretValues] : n \in 0..MaxSecrets}

\* a read-write volume on a claim, a read-only one on a bucket, one of
\* another type
VolumeValues ==
    {[name |-> "data", path |-> "/data", type |-> "read-write", bucket |-> ""],
     [name |-> "assets", path |-> "/assets", type |-> "read-only", bucket |-> "my-bucket"],
     [name |-> "cache", path |-> "/cache", type |-> "readonly", bucket |-> ""]}

VolumeLists == UNION {[1..n -> VolumeValues] : n \in 0..MaxVolumes}

NameAlphabet == {"a", "Z", "9", "_", "-", ".", " ", "/", "@"}

\* the names of up to three characters of the alphabet
SecretNames ==
    {a \o b \o c : a \in NameAlphabet, b \in NameAlphabet \cup {""},
                   c \in NameAlphabet \cup {""}}

\* the base configuration with every list of secrets and of volumes, and
\* with one secret of every name
BuildConfigs ==
    {[BaseConfig EXCEPT !.secrets = ss, !.volumes = vs] :
        ss \in SecretLists, vs \in VolumeLists}
    \cup {[BaseConfig EXCEPT !.secrets = <<Secret(n, "")>>] : n \in SecretNames}

InitBuild ==
    /\ config \in BuildConfigs
    /\ pc = "start"
    /\ elapsed = 0
    /\ serviceDetails = Undefined
    /\ status = "UNKNOWN"
    /\ calls = <<>>
    /\ cmds = <<>>
    /\ lb = NoLb
    /\ outcome = "pending"
    /\ error = NoError
    /\ warnings = <<>>
    /\ revision = ""
    /\ revisions = <<>>
    /\ returned = NotReturned
    /\ run = NoRun

NextBuild == Deploy

SpecBuild == InitBuild /\ [][NextBuild]_vars

(***************************************************************************)
(* The two validations on one configuration: ConfigParser.validate, then   *)
(* deploy() up to its create request.                                      *)
(***************************************************************************)
\* min_instances, max_instances, concurrency around every bound of the checks
ScalingTriples ==
    {<<mn, mn + d, cc>> : mn \in {-1, 0, 1}, d \in {-1, 0, 1}, cc \in {0, 1, 1000, 1001}}

ScalingPolicies ==
    {NoScaling} \cup
    {[present |-> TRUE, min_instances |-> t[1], max_instances |-> t[2], concurrency |-> t[3]] :
        t \in ScalingTriples}

QuantityValues ==
    {NoResources} \cup
    {[present |-> TRUE, cpu |-> c, memory |-> m] :
        c \in CpuValues \cup {"1.5", "1000m"}, m \in MemoryValues}

\* the base configuration with every scaling policy, and with every pair of
\* resource quantities
ValidateConfigs ==
    {[BaseConfig EXCEPT !.scaling = sp] : sp \in ScalingPolicies}
    \cup {[BaseConfig EXCEPT !.resources = q] : q \in QuantityValues}

ParserValidate ==
    /\ pc = "validate"
    /\ returned' = validate(config)
    /\ pc' = "start"
    /\ UNCHANGED <<config, elapsed, serviceDetails, status, calls, cmds, lb, outcome, error>>
    /\ UNCHANGED <<warnings, revision, revisions, run>>

InitValidate ==
    /\ config \in ValidateConfigs
    /\ pc = "validate"
    /\ elapsed = 0
    /\ serviceDetails = Undefined
    /\ status = "UNKNOWN"
    /\ calls = <<>>
    /\ cmds = <<>>
    /\ lb = NoLb
    /\ outcome = "pending"
    /\ error = NoError
    /\ warnings = <<>>
    /\ revision = ""
    /\ revisions = <<>>
    /\ returned = NotReturned
    /\ run = NoRun

NextValidate ==
    \/ ParserValidate
    \/ Deploy

SpecValidate == InitValidate /\ [][NextValidate]_vars

(***************************************************************************)
(* The two validations on configurations that vary in their environment    *)
(* variables.                                                              *)
(***************************************************************************)
\* the valueFrom of an entry: the key absent, null, an object without
\* secretKeyRef, one whose secretKeyRef has no name, one whose has a name
ValueFromValues ==
    {[has |-> FALSE, valueFrom |-> [present |-> FALSE,
                                    secretKeyRef |-> [present |-> FALSE, name |-> ""]]],
     [has |-> TRUE, valueFrom |-> [present |-> FALSE,
                                   secretKeyRef |-> [present |-> FALSE, name |-> ""]]],
     [has |-> TRUE, valueFrom |-> [present |-> TRUE,
                                   secretKeyRef |-> [present |-> FALSE, name |-> ""]]],
     [has |-> TRUE, valueFrom |-> [present |-> TRUE,
                                   secretKeyRef |-> [present |-> TRUE, name |-> ""]]],
     [has |-> TRUE, valueFrom |-> [present |-> TRUE,
                                   secretKeyRef |-> [present |-> TRUE, name |-> "db-pass"]]]}

\* the entries: with and without a name; the value key absent, empty, set
EnvVarValues ==
    {[name |-> n, hasValue |-> v.has, value |-> v.value,
      hasValueFrom |-> f.has, valueFrom |-> f.valueFrom] :
        n \in {"", "DB_PASSWORD"},
        v \in {[has |-> FALSE, value |-> ""], [has |-> TRUE, value |-> ""],
               [has |-> TRUE, value |-> "s3cret"]},
        f \in ValueFromValues}

\* env_vars absent, empty, of one entry, and of a literal entry and another
\* entry in both orders
EnvVarConfigs ==
    {[BaseConfig EXCEPT !.env_vars = [isArray |-> FALSE, entries |-> <<>>]],
     [BaseConfig EXCEPT !.env_vars = [isArray |-> TRUE, entries |-> <<>>]]}
    \cup {[BaseConfig EXCEPT !.env_vars = [isArray |-> TRUE, entries |-> l]] :
            l \in {<<e>> : e \in EnvVarValues}
                  \cup {<<EnvVar("NODE_ENV", "production"), e>> : e \in EnvVarValues}
                  \cup {<<e, EnvVar("NODE_ENV", "production")>> : e \in EnvVarValues}}

InitEnvVars ==
    /\ config \in EnvVarConfigs
    /\ pc = "validate"
    /\ elapsed = 0
    /\ serviceDetails = Undefined
    /\ status = "UNKNOWN"
    /\ calls = <<>>
    /\ cmds = <<>>
    /\ lb = NoLb
    /\ outcome = "pending"
    /\ error = NoError
    /\ warnings = <<>>
    /\ revision = ""
    /\ revisions = <<>>
    /\ returned = NotReturned
    /\ run = NoRun

SpecEnvVars == InitEnvVars /\ [][NextValidate]_vars

(***************************************************************************)
(* destroy(): the service is deleted, then the load balancer is torn down, *)
(* one awaited command per resource, each in a try block of its own.  pc   *)
(* names the deletion whose command is awaited.                            *)
(***************************************************************************)
backendServiceName(c) ==
    IF c.load_balancer.backend_service_name # ""
    THEN c.load_balancer.backend_service_name
    ELSE c.name \o "-backend-service"

DeleteServiceCall(c) == Call("deleteService", servicePath(c), "")

TeardownSteps ==
    {"deleteForwardingRule", "deleteTargetProxy", "deleteUrlMap", "deleteAddress",
     "removeBackend", "deleteNeg", "deleteBackendService"}

DeleteCommand(step, c) ==
    CASE step = "deleteForwardingRule" ->
            Cmd("forwarding-rules", "delete", forwardingRuleName(c), "--global --quiet")
      [] step = "deleteTargetProxy" ->
            Cmd("target-http-proxies", "delete", targetProxyName(c), "--global --quiet")
      [] step = "deleteUrlMap" ->
            Cmd("url-maps", "delete", urlMapName(c), "--global --quiet")
      [] step = "deleteAddress" ->
            Cmd("addresses", "delete", ipAddressName(c), "--global --quiet")
      [] step = "removeBackend" ->
            Cmd("backend-services", "remove-backend", backendServiceName(c),
                "--global --network-endpoint-group=" \o negName(c)
                    \o " --network-endpoint-group-region=" \o c.region)
      [] step = "deleteNeg" ->
            Cmd("network-endpoint-groups", "delete", negName(c),
                "--region=" \o c.region \o " --quiet")
      [] step = "deleteBackendService" ->
            Cmd("backend-services", "delete", backendServiceName(c), "--global --quiet")

\* what the catch block of a deletion hands to console.warn
Warning(step, e) ==
    [message |->
        CASE step = "deleteForwardingRule" -> "Warning: Could not delete forwarding rule:"
          [] step = "deleteTargetProxy" -> "Warning: Could not delete target proxy:"
          [] step = "deleteUrlMap" -> "Warning: Could not delete URL map:"
          [] step = "deleteAddress" -> "Warning: Could not delete static IP address:"
          [] step = "removeBackend" -> "Warning: Could not remove NEG from backend service:"
          [] step = "deleteNeg" -> "Warning: Could not delete NEG:"
          [] step = "deleteBackendService" -> "Warning: Could not delete backend service:",
     error |-> e]

\* the first deletion of the teardown
FirstTeardownStep(existing) ==
    IF ~existing THEN "deleteForwardingRule" ELSE "removeBackend"

\* NextTeardownStep with the NEG deleted before it is detached
NextTeardownStepNegFirst(step, existing) ==
    CASE step = "deleteForwardingRule" -> "deleteTargetProxy"
      [] step = "deleteTargetProxy" -> "deleteUrlMap"
      [] step = "deleteUrlMap" -> "deleteAddress"
      [] step = "deleteAddress" -> "deleteNeg"
      [] step = "deleteNeg" -> "removeBackend"
      [] step = "removeBackend" -> IF ~existing THEN "deleteBackendService" ELSE "end"
      [] step = "deleteBackendService" -> "end"

\* the deletion that follows one whose try block has been left, either way;
\* "end" when destroy() returns
NextTeardownStep(step, existing) ==
    CASE step = "deleteForwardingRule" -> "deleteTargetProxy"
      [] step = "deleteTargetProxy" -> "deleteUrlMap"
      [] step = "deleteUrlMap" -> "deleteAddress"
      [] step = "deleteAddress" -> "removeBackend"
      [] step = "removeBackend" -> "deleteNeg"
      [] step = "deleteNeg" -> IF ~existing THEN "deleteBackendService" ELSE "end"
      [] step = "deleteBackendService" -> "end"

\* destroy() hands the command of a deletion to executeCommand and awaits it
IssueDelete(step, cs, cm) ==
    /\ pc' = step
    /\ cmds' = Append(cm, DeleteCommand(step, config))
    /\ calls' = cs
    /\ UNCHANGED <<lb, outcome, error>>

\* the try block of a deletion has been left
AfterDelete(step, cm) ==
    IF NextTeardownStep(step, config.load_balancer.existing) = "end"
    THEN Resolve(calls, cm)
    ELSE IssueDelete(NextTeardownStep(step, config.load_balancer.existing), calls, cm)

\* destroy() is called: the service is deleted first
Destroy ==
    /\ pc = "destroy"
    /\ IssueCall(DeleteServiceCall(config), "deleteService", calls)
    /\ UNCHANGED <<config, elapsed, serviceDetails, status>>
    /\ UNCHANGED <<warnings, revision, revisions, run, returned>>

\* deleteService throws: the outer catch of destroy() rethrows
DeleteServiceRejects ==
    /\ pc = "deleteService"
    /\ \E e \in PlatformErrors : Reject(e, CallDone(calls, "error", e), cmds)
    /\ UNCHANGED <<config, elapsed, serviceDetails, status>>
    /\ UNCHANGED <<warnings, revision, revisions, run, returned>>

\* the service is deleted: the teardown starts when a load balancer is configured
DeleteServiceResolves ==
    /\ pc = "deleteService"
    /\ IF config.load_balancer.present
       THEN IssueDelete(FirstTeardownStep(config.load_balancer.existing),
                        CallDone(calls, "ok", NoError), cmds)
       ELSE Resolve(CallDone(calls, "ok", NoError), cmds)
    /\ UNCHANGED <<config, elapsed, serviceDetails, status>>
    /\ UNCHANGED <<warnings, revision, revisions, run, returned>>

DeleteCommandSucceeds ==
    /\ pc \in TeardownSteps
    /\ AfterDelete(pc, CommandDone(cmds, "ok", ""))
    /\ UNCHANGED <<config, elapsed, serviceDetails, status>>
    /\ UNCHANGED <<warnings, revision, revisions, run, returned>>

\* DeleteCommandFails with the error leaving destroy()
DeleteCommandFailsAborts ==
    /\ pc \in TeardownSteps
    /\ Reject(CommandError(cmds[Len(cmds)]), calls, CommandDone(cmds, "failed", ""))
    /\ UNCHANGED <<config, elapsed, serviceDetails, status>>
    /\ UNCHANGED <<warnings, revision, revisions, run, returned>>

\* executeCommand rejects: the catch block of the deletion warns and the
\* next deletion follows
DeleteCommandFails ==
    /\ pc \in TeardownSteps
    /\ warnings' = Append(warnings, Warning(pc, CommandError(cmds[Len(cmds)])))
    /\ AfterDelete(pc, CommandDone(cmds, "failed", ""))
    /\ UNCHANGED <<config, elapsed, serviceDetails, status>>
    /\ UNCHANGED <<revision, revisions, run, returned>>

InitDestroy ==
    /\ config \in FlowConfigs
    /\ pc = "destroy"
    /\ elapsed = 0
    /\ serviceDetails = Undefined
    /\ status = "UNKNOWN"
    /\ calls = <<>>
    /\ cmds = <<>>
    /\ lb = NoLb
    /\ outcome = "pending"
    /\ error = NoError
    /\ warnings = <<>>
    /\ revision = ""
    /\ revisions = <<>>
    /\ returned = NotReturned
    /\ run = NoRun

NextDestroy ==
    \/ Destroy
    \/ DeleteServiceRejects
    \/ DeleteServiceResolves
    \/ DeleteCommandSucceeds
    \/ DeleteCommandFails

SpecDestroy == InitDestroy /\ [][NextDestroy]_vars

(***************************************************************************)
(* getRevisions() and rollback().                                          *)
(***************************************************************************)
\* the revision names listRevisions returns
RevisionNames == {"rev-1", "rev-2", "rev-3"}

RevisionLists == {<<>>, <<"rev-1">>, <<"rev-3", "rev-2">>}

ListRevisionsCall(c) == Call("listRevisions", servicePath(c), "")

\* the update request of rollback(): detail is the traffic list of the service
UpdateServiceCall(c, r) ==
    Call("updateService", servicePath(c), <<[revision |-> r, percent |-> 100]>>)

GetRevisions ==
    /\ pc = "getRevisions"
    /\ IssueCall(ListRevisionsCall(config), "listRevisions", calls)
    /\ UNCHANGED <<config, elapsed, serviceDetails, status>>
    /\ UNCHANGED <<warnings, revision, revisions, run, returned>>

\* the names of the revisions are returned
ListRevisionsResolves ==
    /\ pc = "listRevisions"
    /\ revisions' \in RevisionLists
    /\ Resolve(CallDone(calls, "ok", NoError), cmds)
    /\ UNCHANGED <<config, elapsed, serviceDetails, status>>
    /\ UNCHANGED <<warnings, revision, run, returned>>

ListRevisionsRejects ==
    /\ pc = "listRevisions"
    /\ \E e \in PlatformErrors : Reject(e, CallDone(calls, "error", e), cmds)
    /\ UNCHANGED <<config, elapsed, serviceDetails, status>>
    /\ UNCHANGED <<warnings, revision, revisions, run, returned>>

Rollback ==
    /\ pc = "rollback"
    /\ IssueCall(UpdateServiceCall(config, revision), "updateService", calls)
    /\ UNCHANGED <<config, elapsed, serviceDetails, status>>
    /\ UNCHANGED <<warnings, revision, revisions, run, returned>>

UpdateServiceResolves ==
    /\ pc = "updateService"
    /\ Resolve(CallDone(calls, "ok", NoError), cmds)
    /\ UNCHANGED <<config, elapsed, serviceDetails, status>>
    /\ UNCHANGED <<warnings, revision, revisions, run, returned>>

\* UpdateServiceRejects with the error wrapped as the poll loop of deploy() does
UpdateServiceRejectsFormatted ==
    /\ pc = "updateService"
    /\ \E e \in PlatformErrors :
          Reject(NewError(formatError(e)), CallDone(calls, "error", e), cmds)
    /\ UNCHANGED <<config, elapsed, serviceDetails, status>>
    /\ UNCHANGED <<warnings, revision, revisions, run, returned>>

\* the catch block of rollback() rethrows what updateService threw
UpdateServiceRejects ==
    /\ pc = "updateService"
    /\ \E e \in PlatformErrors : Reject(e, CallDone(calls, "error", e), cmds)
    /\ UNCHANGED <<config, elapsed, serviceDetails, status>>
    /\ UNCHANGED <<warnings, revision, revisions, run, returned>>

InitRollback ==
    /\ config \in FlowConfigs
    /\ pc = "rollback"
    /\ elapsed = 0
    /\ serviceDetails = Undefined
    /\ status = "UNKNOWN"
    /\ calls = <<>>
    /\ cmds = <<>>
    /\ lb = NoLb
    /\ outcome = "pending"
    /\ error = NoError
    /\ warnings = <<>>
    /\ revision \in RevisionNames
    /\ revisions = <<>>
    /\ returned = NotReturned
    /\ run = NoRun

NextRollback ==
    \/ Rollback
    \/ UpdateServiceResolves
    \/ UpdateServiceRejects

SpecRollback == InitRollback /\ [][NextRollback]_vars

(***************************************************************************)
(* The deploy and destroy commands: the action handler that runs deploy(), *)
(* getRevisions() and rollback(), or destroy(), once per environment.      *)
(* run.at names what the handler awaits; the methods run as modelled       *)
(* above, each on a service object of its own.  The handler is run without *)
(* a key file (the clients authenticate by default).                       *)
(***************************************************************************)
getServiceNameForEnv(c, env) == c.name \o "-" \o env

getConfigForEnv(c, env) == [c EXCEPT !.name = getServiceNameForEnv(c, env)]

\* the configuration files the commands are run on: the base configuration
\* (three environments, a new load balancer), and one that declares no
\* staging environment and attaches to an existing load balancer
RunConfigs ==
    {BaseConfig,
     [BaseConfig EXCEPT !.environments = [AllEnvironments EXCEPT !.staging = NoEnvironment],
                        !.load_balancer = [present |-> TRUE, backend_service_name |-> "",
                                           existing |-> TRUE]]}

\* the command lines: deploy [--rollback] and destroy, with --env or --all-envs
RunOptions ==
    {[command |-> "deploy", allEnvs |-> a, rollback |-> r, env |-> e] :
        a \in BOOLEAN, r \in BOOLEAN, e \in {"dev", "staging"}}
    \cup {[command |-> "destroy", allEnvs |-> a, rollback |-> FALSE, env |-> e] :
        a \in BOOLEAN, e \in {"dev", "staging"}}

\* a line of the handler's console output
Report(text, env) == [text |-> text, env |-> env]

\* DeclaredEnvironments with the environments pushed in the reverse order
DeclaredEnvironmentsProdFirst(c) ==
    SelectSeq(<<"prod", "staging", "dev">>, LAMBDA env : c.environments[env].present)

\* the environments of --all-envs: those the configuration declares
DeclaredEnvironments(c) ==
    SelectSeq(Environments, LAMBDA env : c.environments[env].present)

\* the method the loop body calls first, and what run.at is while it runs
FirstMethod(r) ==
    IF r.command = "destroy" THEN "destroy"
    ELSE IF r.rollback THEN "getRevisions"
    ELSE "start"

Awaiting(r) ==
    IF r.command = "destroy" THEN "destroy"
    ELSE IF r.rollback THEN "getRevisions"
    ELSE "deploy"

\* a method is called on configuration c
Invoke(method, c) ==
    /\ config' = c
    /\ pc' = method
    /\ elapsed' = 0
    /\ serviceDetails' = Undefined
    /\ status' = "UNKNOWN"
    /\ calls' = <<>>
    /\ cmds' = <<>>
    /\ lb' = NoLb
    /\ outcome' = "pending"
    /\ error' = NoError
    /\ warnings' = <<>>

\* the handler does not call a method
NoInvoke ==
    UNCHANGED <<config, pc, elapsed, serviceDetails, status, calls, cmds, lb,
                outcome, error, warnings>>

\* process.exit(code)
Exit(r, code) ==
    /\ run' = [r EXCEPT !.at = "exited", !.exitCode = code]
    /\ NoInvoke
    /\ UNCHANGED <<revision, revisions, returned>>

\* the handler's promise rejects: nothing handles the rejection and the
\* runtime ends the process with status 1
Crash(r) ==
    /\ run' = [r EXCEPT !.at = "crashed", !.exitCode = 1]
    /\ NoInvoke
    /\ UNCHANGED <<revision, revisions, returned>>

\* the head of the loop with r.envsToProcess[k] next: the loop body up to
\* its first await, or the end of the handler (the process ends with status 0)
ProcessEnvironment(r, k) ==
    IF k > Len(r.envsToProcess)
    THEN Exit([r EXCEPT !.i = k], 0)
    ELSE /\ run' = [r EXCEPT !.i = k, !.at = Awaiting(r),
                             !.reports = Append(@, Report("Processing environment",
                                                          r.envsToProcess[k]))]
         /\ Invoke(FirstMethod(r), getConfigForEnv(r.baseConfig, r.envsToProcess[k]))
         /\ UNCHANGED <<revision, revisions, returned>>

\* the handler starts: the environments to process are determined
RunCommand ==
    /\ run.at = "start"
    /\ IF run.allEnvs
       THEN ProcessEnvironment(
                [run EXCEPT !.envsToProcess = DeclaredEnvironments(run.baseConfig)], 1)
       ELSE IF ~run.baseConfig.environments[run.env].present
       THEN Exit(run, 1)
       ELSE ProcessEnvironment([run EXCEPT !.envsToProcess = <<run.env>>], 1)

\* AfterFailure going on to the next environment in every mode
AfterFailureAlwaysContinues(r) == ProcessEnvironment(r, r.i + 1)

\* AfterFailure ending the process in every mode
AfterFailureAlwaysExits(r) == Exit(r, 1)

\* the catch block around deploy() and destroy(), after the failure is printed
AfterFailure(r) ==
    IF ~r.allEnvs THEN Exit(r, 1) ELSE ProcessEnvironment(r, r.i + 1)

WithReport(r, text) ==
    [r EXCEPT !.reports = Append(@, Report(text, r.envsToProcess[r.i]))]

\* deploy() has returned or thrown
DeploySettled ==
    /\ run.at = "deploy"
    /\ pc = "done"
    /\ IF outcome = "resolved"
       THEN ProcessEnvironment(WithReport(run, "Successfully deployed"), run.i + 1)
       ELSE AfterFailure(WithReport(run, "Failed to deploy"))

\* destroy() has returned or thrown
DestroySettled ==
    /\ run.at = "destroy"
    /\ pc = "done"
    /\ IF outcome = "resolved"
       THEN ProcessEnvironment(WithReport(run, "Successfully destroyed"), run.i + 1)
       ELSE AfterFailure(WithReport(run, "Failed to destroy"))

\* getRevisions() has returned or thrown: no try block is around it
GetRevisionsSettled ==
    /\ run.at = "getRevisions"
    /\ pc = "done"
    /\ IF outcome = "rejected"
       THEN Crash(run)
       ELSE IF Len(revisions) = 0
       THEN ProcessEnvironment(WithReport(run, "No revisions found"), run.i + 1)
       ELSE /\ run' = [run EXCEPT !.at = "prompt"]
            /\ NoInvoke
            /\ UNCHANGED <<revision, revisions, returned>>

\* the prompt is answered with one of the revisions: rollback() is called
PromptAnswered ==
    /\ run.at = "prompt"
    /\ \E k \in DOMAIN revisions : revision' = revisions[k]
    /\ run' = [run EXCEPT !.at = "rollback"]
    /\ Invoke("rollback", config)
    /\ UNCHANGED <<revisions, returned>>

\* rollback() has returned or thrown: no try block is around it
RollbackSettled ==
    /\ run.at = "rollback"
    /\ pc = "done"
    /\ IF outcome = "rejected"
       THEN Crash(run)
       ELSE ProcessEnvironment(run, run.i + 1)

InitRun ==
    /\ \E o \in RunOptions, c \in RunConfigs :
          run = [command |-> o.command, allEnvs |-> o.allEnvs, rollback |-> o.rollback,
                 env |-> o.env, baseConfig |-> c, envsToProcess |-> <<>>, i |-> 0,
                 at |-> "start", exitCode |-> -1, reports |-> <<>>]
    /\ config = run.baseConfig
    /\ pc = "idle"
    /\ elapsed = 0
    /\ serviceDetails = Undefined
    /\ status = "UNKNOWN"
    /\ calls = <<>>
    /\ cmds = <<>>
    /\ lb = NoLb
    /\ outcome = "pending"
    /\ error = NoError
    /\ warnings = <<>>
    /\ revision = ""
    /\ revisions = <<>>
    /\ returned = NotReturned

NextRun ==
    \/ RunCommand
    \/ DeploySettled
    \/ DestroySettled
    \/ GetRevisionsSettled
    \/ PromptAnswered
    \/ RollbackSettled
    \/ Next
    \/ NextDestroy
    \/ GetRevisions
    \/ ListRevisionsResolves
    \/ ListRevisionsRejects
    \/ NextRollback

SpecRun == InitRun /\ [][NextRun]_vars

\* the configurations of the commands' environments
EnvConfigs ==
    {getConfigForEnv(c, Environments[k]) : c \in RunConfigs, k \in DOMAIN Environments}

TypeOK ==
    /\ config \in Configs \/ config \in RunConfigs \/ config \in EnvConfigs
    /\ pc \in {"start", "createService", "settle", "getService", "pollInterval",
               "setIamPolicy", "executeCommand", "done"}
               \cup {"destroy", "deleteService"} \cup TeardownSteps
               \cup {"getRevisions", "listRevisions", "rollback", "updateService", "idle"}
    /\ elapsed \in 0..(POLLING_TIMEOUT + POLLING_INTERVAL)
    /\ serviceDetails \in GetServiceResponses
    /\ outcome \in {"pending", "resolved", "rejected"}
    /\ (outcome = "pending") = (pc # "done")
    /\ run.exitCode \in {-1, 0, 1}
    /\ (run.exitCode = -1) = (run.at \notin {"exited", "crashed"})
    /\ (outcome = "rejected") = (error # NoError)

(***************************************************************************)
(* What the logs show.                                                     *)
(***************************************************************************)
CallsOf(api) == {i \in DOMAIN calls : calls[i].api = api}

CommandKinds == [i \in DOMAIN cmds |-> cmds[i].group \o " " \o cmds[i].verb]

IsPrefix(s, t) == Len(s) <= Len(t) /\ s = SubSeq(t, 1, Len(s))

Succeeded == status = "CONDITION_SUCCEEDED"

\* a thrown value with a structured platform error payload
Structured(e) == e.code # 0 /\ e.details # ""

(***************************************************************************)
(* C1: a configuration that violates the service-name pattern, the CPU     *)
(* format, the memory format or the scaling bounds makes deploy fail with  *)
(* an error, and no request to the platform and no load-balancer command   *)
(* is ever issued for it.                                                  *)
(***************************************************************************)
ViolatesValidation(c) ==
    \/ ~serviceNamePattern(c.name)
    \/ c.resources.present /\ ~cpuPattern(c.resources.cpu)
    \/ c.resources.present /\ ~memoryPattern(c.resources.memory)
    \/ /\ c.scaling.present
       /\ ~(/\ c.scaling.min_instances >= 0
            /\ c.scaling.max_instances >= c.scaling.min_instances
            /\ c.scaling.concurrency >= 1
            /\ c.scaling.concurrency <= 1000)

C1_InvalidConfigNoRemoteCall ==
    ViolatesValidation(config) =>
        /\ calls = <<>>
        /\ cmds = <<>>
        /\ pc \in {"start", "done"}
        /\ pc = "done" => outcome = "rejected" /\ error.type = "Error" /\ error.message # ""

C1_Witness ==
    /\ pc = "done"
    /\ outcome = "rejected"
    /\ ~serviceNamePattern(config.name)
    /\ config.allow_unauthenticated
    /\ config.load_balancer.present

(***************************************************************************)
(* C2: deploy calls setIamPolicy exactly once, binding roles/run.invoker   *)
(* to allUsers on the path of the deployed service, when the poll loop has *)
(* ended in success and allow_unauthenticated is set, and never otherwise. *)
(***************************************************************************)
C2_ExactlyOneIamCall ==
    /\ Cardinality(CallsOf("setIamPolicy")) =
          IF Succeeded /\ config.allow_unauthenticated THEN 1 ELSE 0
    /\ \A i \in CallsOf("setIamPolicy") :
          /\ calls[i].resource =
                "projects/" \o config.project_id \o "/locations/" \o config.region
                    \o "/services/" \o config.name
          /\ calls[i].detail = "roles/run.invoker:allUsers"

C2_Witness ==
    /\ pc = "done"
    /\ outcome = "resolved"
    /\ Cardinality(CallsOf("setIamPolicy")) = 1

(***************************************************************************)
(* C3: within one deploy the create request precedes every status read,    *)
(* setIamPolicy is called only right after a status read that reported     *)
(* terminal success, and a load-balancer command is run only after         *)
(* terminal success and after the IAM call has succeeded (or was not       *)
(* requested).                                                             *)
(***************************************************************************)
C3_Ordering ==
    /\ \A i \in CallsOf("getService") :
          \E j \in 1..(i - 1) : calls[j].api = "createService" /\ calls[j].result = "ok"
    /\ \A i \in CallsOf("setIamPolicy") :
          /\ i > 1
          /\ calls[i - 1].api = "getService"
          /\ calls[i - 1].result = "ok"
          /\ Succeeded
    /\ cmds # <<>> =>
          /\ Succeeded
          /\ IF config.allow_unauthenticated
             THEN \E i \in CallsOf("setIamPolicy") : calls[i].result = "ok"
             ELSE CallsOf("setIamPolicy") = {}

C3_Witness ==
    /\ pc = "done"
    /\ outcome = "resolved"
    /\ config.allow_unauthenticated
    /\ cmds # <<>>
    /\ Cardinality(CallsOf("getService")) >= 2

(***************************************************************************)
(* C4: when setIamPolicy fails after terminal success, deploy fails with   *)
(* that error and no load-balancer command is run.                         *)
(***************************************************************************)
C4_IamFailureFatal ==
    \A i \in CallsOf("setIamPolicy") :
        calls[i].result = "error" =>
            /\ pc = "done"
            /\ outcome = "rejected"
            /\ error = calls[i].thrown
            /\ cmds = <<>>

C4_Witness ==
    /\ config.load_balancer.present
    /\ Succeeded
    /\ \E i \in CallsOf("setIamPolicy") : calls[i].result = "error"

(***************************************************************************)
(* C5: when the create request was accepted, every status read returned    *)
(* and none reported terminal success, deploy ends with the timed-out      *)
(* error once the clock has passed the 10-minute budget, and that error    *)
(* carries the state (and the message, when there is one) of the last      *)
(* condition of the last status read.  The poll loop cannot run on beyond  *)
(* the budget: TypeOK bounds elapsed.                                      *)
(***************************************************************************)
NoReadFailed ==
    /\ \E i \in CallsOf("createService") : calls[i].result = "ok"
    /\ \A i \in CallsOf("getService") : calls[i].result = "ok"

C5_TimedOutWithLastState ==
    (pc = "done" /\ NoReadFailed /\ ~Succeeded) =>
        /\ elapsed > POLLING_TIMEOUT
        /\ outcome = "rejected"
        /\ error.type = "Error"
        /\ includes(error.message, "timed out after 600 seconds")
        /\ (serviceDetails.hasConditions /\ serviceDetails.conditions # <<>>) =>
              LET last == serviceDetails.conditions[Len(serviceDetails.conditions)]
              IN  /\ includes(error.message, "Last known status: " \o last.state)
                  /\ last.message # "" =>
                        includes(error.message, "Message: " \o last.message)

C7_StructuredErrorFatal ==
    \A i \in CallsOf("getService") :
        (calls[i].result = "error" /\ Structured(calls[i].thrown)) =>
            /\ i = Len(calls)
            /\ CallsOf("setIamPolicy") = {}
            /\ cmds = <<>>
            /\ pc = "done"
            /\ outcome = "rejected"
            /\ error.message =
                  "Error (" \o ToString(calls[i].thrown.code) \o "): "
                      \o calls[i].thrown.details

C7_Witness ==
    \E i \in CallsOf("getService") :
        /\ calls[i].result = "error"
        /\ Structured(calls[i].thrown)
        /\ i > 3
        /\ config.allow_unauthenticated
        /\ config.load_balancer.present

(***************************************************************************)
(* C8: for a new load balancer (existing = false) the commands are run in  *)
(* the order create NEG, create backend service, attach NEG, reserve       *)
(* address, read the address back, create URL map, create target proxy,    *)
(* create forwarding rule; a command is run only when every command before *)
(* it has succeeded, and when deploy succeeds each has been run exactly    *)
(* once.                                                                   *)
(***************************************************************************)
NewChainOrder ==
    <<"network-endpoint-groups create", "backend-services create",
      "backend-services add-backend", "addresses create", "addresses describe",
      "url-maps create", "target-http-proxies create", "forwarding-rules create">>

C8_NewLoadBalancerOrder ==
    (config.load_balancer.present /\ ~config.load_balancer.existing) =>
        /\ IsPrefix(CommandKinds, NewChainOrder)
        /\ \A i \in 1..(Len(cmds) - 1) : cmds[i].result = "ok"
        /\ outcome = "resolved" =>
              /\ CommandKinds = NewChainOrder
              /\ \A i \in DOMAIN cmds : cmds[i].result = "ok"

C8_Witness ==
    /\ config.load_balancer.present
    /\ ~config.load_balancer.existing
    /\ outcome = "resolved"
    /\ Len(cmds) = 8

(***************************************************************************)
(* C9: when a load-balancer command fails, no further command is run, the  *)
(* command's error makes deploy fail, and nothing is undone: no delete     *)
(* command and no deletion of the service is issued.                       *)
(***************************************************************************)
C9_NoRollbackOnFailure ==
    \A k \in DOMAIN cmds :
        cmds[k].result = "failed" =>
            /\ k = Len(cmds)
            /\ pc = "done"
            /\ outcome = "rejected"
            /\ error.type = "Error"
            /\ includes(error.message, "Command failed: gcloud compute " \o cmds[k].group)
            /\ \A j \in DOMAIN cmds : cmds[j].verb # "delete"
            /\ CallsOf("deleteService") = {}

C9_Witness ==
    \E k \in DOMAIN cmds :
        /\ cmds[k].result = "failed"
        /\ k >= 4
        /\ cmds[k].verb = "create"

(***************************************************************************)
(* C10: on the attach path (existing = true) the commands are run in the   *)
(* order create NEG, create backend service, attach NEG, list the          *)
(* forwarding rules (twice), describe the target proxy named in the        *)
(* listing, repoint the default service of the URL map named in the        *)
(* description to the new backend service; no address, URL map, target     *)
(* proxy or forwarding rule is ever created.                               *)
(***************************************************************************)
AttachOrder ==
    <<"network-endpoint-groups create", "backend-services create",
      "backend-services add-backend", "forwarding-rules list", "forwarding-rules list",
      "target-http-proxies describe", "url-maps set-default-service">>

MatchingLines(out) ==
    LET lines == split(trim(out), "\n")
    IN  SelectSeq(lines, LAMBDA line : includes(line, "test-lb") \/ includes(line, "http-proxy"))

\* the k-th command was the last one, and deploy has failed naming `lookup`
AttachFailedAt(k, lookup) ==
    /\ k = Len(cmds)
    /\ pc = "done"
    /\ outcome = "rejected"
    /\ error.type = "Error"
    /\ includes(error.message, "Could not find") \/ includes(error.message, "No ")
    /\ includes(error.message, lookup)
    /\ \A j \in DOMAIN cmds : cmds[j].verb # "set-default-service"

C11_LookupFailureFatal ==
    (config.load_balancer.present /\ config.load_balancer.existing) =>
        \A k \in DOMAIN cmds :
            /\ ( /\ cmds[k].verb = "list"
                 /\ cmds[k].result = "ok"
                 /\ includes(cmds[k].flags, "get(name,target)") ) =>
                    /\ MatchingLines(cmds[k].stdout) = <<>> =>
                          AttachFailedAt(k, "forwarding rule")
                    /\ ( /\ MatchingLines(cmds[k].stdout) # <<>>
                         /\ Len(splitWhitespace(Head(MatchingLines(cmds[k].stdout)))) < 2 ) =>
                          AttachFailedAt(k, "target proxy")
            /\ ( /\ cmds[k].verb = "describe"
                 /\ cmds[k].result = "ok"
                 /\ \/ trim(cmds[k].stdout) = ""
                    \/ CharAt(trim(cmds[k].stdout), Len(trim(cmds[k].stdout))) = "/" ) =>
                    AttachFailedAt(k, "URL map")

C11_Witness ==
    /\ config.load_balancer.present
    /\ config.load_balancer.existing
    /\ Len(cmds) = 6
    /\ cmds[6].verb = "describe"
    /\ cmds[6].stdout = "global/urlMaps/"
    /\ outcome = "rejected"
    /\ error.message = "Could not find URL map for the load balancer"

(***************************************************************************)
(* What a run of destroy() shows.                                          *)
(***************************************************************************)
ServiceDeleted == \E i \in CallsOf("deleteService") : calls[i].result = "ok"

FailedCommands == {k \in DOMAIN cmds : cmds[k].result = "failed"}

NewTeardownOrder ==
    <<"forwarding-rules delete", "target-http-proxies delete", "url-maps delete",
      "addresses delete", "backend-services remove-backend",
      "network-endpoint-groups delete", "backend-services delete">>

AttachTeardownOrder ==
    <<"backend-services remove-backend", "network-endpoint-groups delete">>

\* the deletions that apply to the configuration, in order
ApplicableDeletions ==
    IF ~config.load_balancer.present THEN <<>>
    ELSE IF config.load_balancer.existing THEN AttachTeardownOrder
    ELSE NewTeardownOrder

(***************************************************************************)
(* C12: once the service is deleted and the teardown of the load balancer  *)
(* runs, a deletion command that fails is followed by the next applicable  *)
(* deletion, there is exactly one warning per failed command, each naming  *)
(* that command's error, and destroy never fails: it ends resolved, with   *)
(* every applicable deletion issued.                                       *)
(***************************************************************************)
C12_TeardownFailuresAreWarnings ==
    (ServiceDeleted /\ config.load_balancer.present) =>
        /\ \A k \in FailedCommands : k < Len(ApplicableDeletions) => Len(cmds) > k
        /\ Len(warnings) = Cardinality(FailedCommands)
        /\ \A k \in FailedCommands :
              \E w \in DOMAIN warnings :
                  /\ w = Cardinality({j \in FailedCommands : j <= k})
                  /\ includes(warnings[w].message, "Warning: Could not")
                  /\ includes(warnings[w].error.message,
                              "gcloud compute " \o cmds[k].group \o " " \o cmds[k].verb)
        /\ outcome # "rejected"
        /\ pc = "done" =>
              /\ outcome = "resolved"
              /\ Len(cmds) = Len(ApplicableDeletions)

C12_Witness ==
    /\ pc = "done"
    /\ outcome = "resolved"
    /\ ~config.load_balancer.existing
    /\ Len(cmds) = 7
    /\ FailedCommands = {6}
    /\ cmds[6].group = "network-endpoint-groups"
    /\ Len(warnings) = 1

(***************************************************************************)
(* C13: the teardown issues its deletions in the order forwarding rule,    *)
(* target proxy, URL map, static IP, detachment of the NEG from the        *)
(* backend service, NEG, backend service; the first four and the last only *)
(* for a load balancer that was newly created.  On the attach              *)
(* configuration none of those five is ever issued.                        *)
(***************************************************************************)
C13_TeardownOrder ==
    /\ IsPrefix(CommandKinds, ApplicableDeletions)
    /\ (config.load_balancer.present /\ config.load_balancer.existing) =>
          \A k \in DOMAIN cmds :
              /\ cmds[k].group \notin {"forwarding-rules", "target-http-proxies",
                                       "url-maps", "addresses"}
              /\ ~(cmds[k].group = "backend-services" /\ cmds[k].verb = "delete")
    /\ (pc = "done" /\ outcome = "resolved") => CommandKinds = ApplicableDeletions

C13_Witness ==
    /\ pc = "done"
    /\ outcome = "resolved"
    /\ config.load_balancer.present
    /\ ~config.load_balancer.existing
    /\ Len(cmds) = 7
    /\ cmds[1].group = "forwarding-rules"
    /\ cmds[7].group = "backend-services"
    /\ FailedCommands = {2, 5}

(***************************************************************************)
(* C14: in every run of destroy on a configuration with a load balancer,   *)
(* every applicable deletion of the teardown has been attempted when       *)
(* destroy ends, whatever the outcome of the steps before it.              *)
(***************************************************************************)
C14_TeardownAlwaysAttempted ==
    (pc = "done" /\ config.load_balancer.present) =>
        CommandKinds = ApplicableDeletions

(***************************************************************************)
(* C20: rollback(config, r) issues exactly one request, an update of the   *)
(* service of the configuration whose traffic list is exactly              *)
(* [{revision: r, percent: 100}], for every revision r; when the platform  *)
(* rejects the update, rollback fails with the very error the platform     *)
(* threw.                                                                  *)
(***************************************************************************)
C20_RollbackPinsRevision ==
    /\ pc = "rollback" => calls = <<>>
    /\ pc # "rollback" =>
          /\ Len(calls) = 1
          /\ calls[1].api = "updateService"
          /\ calls[1].resource =
                "projects/" \o config.project_id \o "/locations/" \o config.region
                    \o "/services/" \o config.name
          /\ Len(calls[1].detail) = 1
          /\ calls[1].detail[1] = [revision |-> revision, percent |-> 100]
          /\ calls[1].result = "error" =>
                /\ pc = "done"
                /\ outcome = "rejected"
                /\ error = calls[1].thrown
          /\ calls[1].result = "ok" => pc = "done" /\ outcome = "resolved"
    /\ cmds = <<>>

C20_Witness ==
    /\ revision = "rev-2"
    /\ pc = "done"
    /\ outcome = "rejected"
    /\ error.type = "GoogleError"
    /\ error.code = 5
    /\ calls[1].detail = <<[revision |-> "rev-2", percent |-> 100]>>

(***************************************************************************)
(* What a run of a command shows.                                          *)
(***************************************************************************)
\* the awaited deploy() or destroy() of the current environment has thrown
OperationFailed ==
    /\ run.at \in {"deploy", "destroy"}
    /\ pc = "done"
    /\ outcome = "rejected"

CurrentEnv == run.envsToProcess[run.i]

\* the environments whose processing the console output shows, in order
Processed(reports) ==
    LET started == SelectSeq(reports, LAMBDA r : r.text = "Processing environment")
    IN  [k \in DOMAIN started |-> started[k].env]

FailureReports(reports) ==
    SelectSeq(reports, LAMBDA r : r.text \in {"Failed to deploy", "Failed to destroy"})

\* the environments a configuration declares, in the order dev, staging, prod
DeclaredIn(c) ==
    SelectSeq(<<"dev", "staging", "prod">>, LAMBDA e : c.environments[e].present)

(***************************************************************************)
(* C15: with --all-envs, when deploy() or destroy() fails for an           *)
(* environment, the handler prints the failure for that environment and    *)
(* goes on: it calls the same operation for the next declared environment, *)
(* or returns when that was the last one.  It never stops before the last  *)
(* declared environment.                                                   *)
(***************************************************************************)
C15_FailureReportedRunContinues ==
    [][ (run.allEnvs /\ OperationFailed) =>
            /\ run.envsToProcess = DeclaredIn(run.baseConfig)
            /\ Len(run'.reports) > Len(run.reports)
            /\ run'.reports[Len(run.reports) + 1].env = CurrentEnv
            /\ run'.reports[Len(run.reports) + 1].text =
                  (IF run.command = "deploy" THEN "Failed to deploy" ELSE "Failed to destroy")
            /\ IF run.i < Len(run.envsToProcess)
               THEN /\ run'.at = run.at
                    /\ run'.i = run.i + 1
                    /\ Processed(run'.reports) = SubSeq(run.envsToProcess, 1, run.i + 1)
                    /\ pc' = (IF run.command = "deploy" THEN "start" ELSE "destroy")
                    /\ outcome' = "pending"
                    /\ config'.name =
                          run.baseConfig.name \o "-" \o run.envsToProcess[run.i + 1]
               ELSE /\ run'.at = "exited"
                    /\ Processed(run'.reports) = run.envsToProcess
      ]_vars

C15_Witness ==
    /\ run.allEnvs
    /\ run.command = "deploy"
    /\ run.at = "exited"
    /\ Processed(run.reports) = <<"dev", "staging", "prod">>
    /\ FailureReports(run.reports) = <<Report("Failed to deploy", "staging")>>
    /\ run.reports[Len(run.reports)] = Report("Successfully deployed", "prod")

(***************************************************************************)
(* C16: with --all-envs, once every environment has been processed, the    *)
(* process ends with a non-zero status when the operation has failed for   *)
(* at least one environment, and with status zero only when it has         *)
(* succeeded for all.                                                      *)
(***************************************************************************)
C16_ExitStatusAggregatesFailures ==
    (run.allEnvs /\ run.at = "exited") =>
        (run.exitCode = 0) = (FailureReports(run.reports) = <<>>)

(***************************************************************************)
(* C17: with --all-envs and --rollback, a failure of getRevisions() or of  *)
(* rollback() for an environment does not end the run: the process ends    *)
(* only after the last declared environment has been processed.            *)
(***************************************************************************)
C17_RollbackFailureCaught ==
    (run.allEnvs /\ run.rollback /\ run.exitCode # -1) =>
        /\ run.at = "exited"
        /\ Processed(run.reports) = DeclaredIn(run.baseConfig)

(***************************************************************************)
(* C18: with --env, when deploy() or destroy() fails, the handler prints   *)
(* the failure and ends the process with status 1; no method is called     *)
(* after the failure and no other environment is processed.                *)
(***************************************************************************)
C18_SingleModeFailureAborts ==
    [][ (~run.allEnvs /\ OperationFailed) =>
            /\ run'.at = "exited"
            /\ run'.exitCode # 0
            /\ run'.reports =
                  Append(run.reports,
                         Report(IF run.command = "deploy" THEN "Failed to deploy"
                                ELSE "Failed to destroy", run.env))
            /\ Processed(run'.reports) = <<run.env>>
            /\ UNCHANGED <<config, pc, calls, cmds, outcome, error>>
      ]_vars

C18_Witness ==
    /\ ~run.allEnvs
    /\ run.command = "deploy"
    /\ run.env = "staging"
    /\ run.at = "exited"
    /\ run.exitCode = 1
    /\ run.reports = <<Report("Processing environment", "staging"),
                       Report("Failed to deploy", "staging")>>
    /\ outcome = "rejected"
    /\ Len(calls) > 3

(***************************************************************************)
(* C19: the configuration a command derives for environment e has the      *)
(* service name {name}-{e} and the project id and the region declared for  *)
(* e under environments, and every request of the methods run for e is on  *)
(* a resource of that project and region.                                  *)
(***************************************************************************)
C19_EnvironmentOverlay ==
    run.at \in {"deploy", "destroy", "getRevisions", "prompt", "rollback"} =>
        LET declared == run.baseConfig.environments[CurrentEnv]
        IN  /\ config.name = run.baseConfig.name \o "-" \o CurrentEnv
            /\ config.project_id = declared.project_id
            /\ config.region = declared.region
            /\ \A k \in DOMAIN calls :
                  IsPrefix("projects/" \o declared.project_id
                               \o "/locations/" \o declared.region,
                           calls[k].resource)

(***************************************************************************)
(* Validation of the scaling policy and of the resource quantities.        *)
(***************************************************************************)
ScalingValid(sp) ==
    /\ sp.min_instances >= 0
    /\ sp.max_instances >= sp.min_instances
    /\ 1 <= sp.concurrency
    /\ sp.concurrency <= 1000

\* deploy() has run its validation and passed it: the create request is issued
PassedDeployValidation == pc = "createService" /\ Len(calls) = 1

\* deploy() has run its validation and failed it: rejected, nothing requested
FailedDeployValidation == pc = "done" /\ outcome = "rejected" /\ calls = <<>>

\* C21: a scaling policy is accepted if and only if min_instances >= 0,
\* max_instances >= min_instances and 1 <= concurrency <= 1000, by
\* ConfigParser.validate and by the check of deploy() alike, on every integer
\* triple around the bounds.
C21_ScalingAcceptance ==
    (config.scaling.present /\ config.resources = BaseConfig.resources) =>
        /\ returned.defined =>
              /\ returned.thrown = NoError
              /\ returned.value <=> ScalingValid(config.scaling)
        /\ pc \notin {"validate", "start"} =>
              /\ PassedDeployValidation <=> ScalingValid(config.scaling)
              /\ FailedDeployValidation <=> ~ScalingValid(config.scaling)
              /\ PassedDeployValidation <=> returned.value

\* the boundary policy min 0, max = min, concurrency 1000 is accepted by both
C21_Witness ==
    /\ config.scaling.present
    /\ config.scaling.min_instances = 0
    /\ config.scaling.max_instances = 0
    /\ config.scaling.concurrency = 1000
    /\ returned.defined
    /\ returned.value
    /\ PassedDeployValidation

\* C22: memory "256Mi" is accepted and "256" rejected; the CPU strings "abc",
\* "" and "1.5.2" are rejected and "1", "1.5" and "1000m" accepted.
C22_QuantityFormats ==
    (config.resources.present /\ config.scaling = BaseConfig.scaling
        /\ pc \notin {"validate", "start"}) =>
        /\ (config.resources.cpu \in {"1", "1.5", "1000m"}
                /\ config.resources.memory = "256Mi") => PassedDeployValidation
        /\ config.resources.cpu \in {"abc", "", "1.5.2"} =>
              FailedDeployValidation /\ error = NewError(CpuFormatMessage)
        /\ (config.resources.cpu \in {"1", "1.5", "1000m"}
                /\ config.resources.memory = "256") =>
              FailedDeployValidation /\ error = NewError(MemoryFormatMessage)

\* deploy() has rejected the memory "256" next to the millicpu value "1000m"
C22_Witness ==
    /\ config.resources.present
    /\ config.resources.cpu = "1000m"
    /\ config.resources.memory = "256"
    /\ FailedDeployValidation
    /\ error = NewError(MemoryFormatMessage)

(***************************************************************************)
(* The service deploy() submits.                                           *)
(***************************************************************************)
\* config.traffic || []
DeclaredTraffic == IF config.traffic.isArray THEN config.traffic.entries ELSE <<>>

RECURSIVE SumOfPercent(_)
SumOfPercent(traffic) ==
    IF traffic = <<>> THEN 0 ELSE Head(traffic).percent + SumOfPercent(Tail(traffic))

\* C23: the traffic list of the create request equals the declared traffic
\* list entry for entry, in order and with the percentages unchanged, whatever
\* they sum to; deploy() issues no other request that carries traffic.
C23_TrafficPassedThrough ==
    /\ pc # "start" =>
          /\ Len(calls) >= 1
          /\ calls[1].api = "createService"
          /\ Len(calls[1].service.traffic) = Len(DeclaredTraffic)
          /\ \A k \in DOMAIN DeclaredTraffic :
                /\ calls[1].service.traffic[k].revision = DeclaredTraffic[k].revision
                /\ calls[1].service.traffic[k].percent = DeclaredTraffic[k].percent
                /\ calls[1].service.traffic[k].tag = DeclaredTraffic[k].tag
    /\ \A i \in DOMAIN calls :
          /\ calls[i].api \in {"createService", "getService", "setIamPolicy"}
          /\ calls[i].api = "createService" => i = 1

\* deploy() has returned after submitting a split of 0 and 100 percent
C23_Witness ==
    /\ pc = "done"
    /\ outcome = "resolved"
    /\ Len(DeclaredTraffic) = 2
    /\ DeclaredTraffic[2].percent = 0
    /\ Len(calls[1].service.traffic) = 2
    /\ \E i \in DOMAIN calls : calls[i].api = "setIamPolicy"

(***************************************************************************)
(* The order of the environments and of the remote operations.             *)
(***************************************************************************)
AllSettledButLast(log) == \A i \in 1..(Len(log) - 1) : log[i].result # "pending"

PendingLast(log) == log # <<>> /\ log[Len(log)].result = "pending"

\* at most one request or command is awaited, and it is the last one issued
NoOverlap(cs, cm) ==
    /\ AllSettledButLast(cs)
    /\ AllSettledButLast(cm)
    /\ ~(PendingLast(cs) /\ PendingLast(cm))

\* C24: the environments are processed one after another in the order dev,
\* staging, prod: the handler turns to the next environment only when the
\* operation of the current one has returned or thrown and nothing it
\* requested is still awaited; the requests and commands of one operation
\* never overlap.
C24_EnvironmentsInSequence ==
    [][ /\ NoOverlap(calls', cmds')
        /\ run'.allEnvs => IsPrefix(Processed(run'.reports), DeclaredIn(run'.baseConfig))
        /\ Processed(run'.reports) # Processed(run.reports) =>
              /\ ~PendingLast(calls)
              /\ ~PendingLast(cmds)
              /\ run.at = "start" \/ (pc = "done" /\ outcome \in {"resolved", "rejected"})
              /\ calls' = <<>>
              /\ cmds' = <<>>
      ]_vars

\* the third environment is being deployed and a command of its load
\* balancer is awaited
C24_Witness ==
    /\ run.allEnvs
    /\ Processed(run.reports) = <<"dev", "staging", "prod">>
    /\ config.name = "my-svc-prod"
    /\ Len(cmds) >= 2
    /\ PendingLast(cmds)

(***************************************************************************)
(* The condition the poll loop decides on.                                 *)
(***************************************************************************)
\* the last status read returned a condition list that is not empty
HasConditions == serviceDetails.hasConditions /\ serviceDetails.conditions # <<>>

\* the state of the condition the timeout branch reports as last known
LastKnownState == serviceDetails.conditions[Len(serviceDetails.conditions)].state

\* C25: the poll loop ends with success exactly when the condition whose
\* state is reported as last known on timeout, the last one of the list
\* read, has the terminal-success state; no other condition decides.
C25_SuccessByLastKnownCondition ==
    /\ Succeeded => HasConditions /\ LastKnownState = "CONDITION_SUCCEEDED"
    /\ (pc = "pollInterval" /\ HasConditions) => LastKnownState # "CONDITION_SUCCEEDED"

(***************************************************************************)
(* The ways out of the poll loop.                                          *)
(***************************************************************************)
InLoop(at) == at \in {"getService", "pollInterval"}

\* no condition of the read d has the terminal-success state
NoSuccessIn(d) ==
    \A k \in DOMAIN d.conditions : d.conditions[k].state # "CONDITION_SUCCEEDED"

\* C26: a status read that reports no terminal success, be its state failed,
\* pending or unknown, does not end deploy(): the loop waits the poll
\* interval and then either reads again or, past the timeout, fails.  The
\* loop is left only on terminal success, on a failed read or on timeout.
C26_NonSuccessKeepsPolling ==
    [][ /\ (pc = "getService" /\ calls'[Len(calls)].result = "ok"
                /\ NoSuccessIn(serviceDetails')) =>
              /\ pc' = "pollInterval"
              /\ outcome' = "pending"
              /\ Len(calls') = Len(calls)
              /\ cmds' = cmds
        /\ pc = "pollInterval" =>
              /\ elapsed' = elapsed + POLLING_INTERVAL
              /\ IF elapsed' > POLLING_TIMEOUT
                 THEN pc' = "done" /\ outcome' = "rejected"
                 ELSE /\ pc' = "getService"
                      /\ calls' = Append(calls, GetServiceCall(config))
                      /\ outcome' = "pending"
        /\ (InLoop(pc) /\ ~InLoop(pc')) =>
              \/ /\ pc = "getService"
                 /\ calls'[Len(calls)].result = "ok"
                 /\ status' = "CONDITION_SUCCEEDED"
                 /\ outcome' # "rejected"
              \/ /\ pc = "getService"
                 /\ calls'[Len(calls)].result = "error"
                 /\ outcome' = "rejected"
              \/ /\ pc = "pollInterval"
                 /\ elapsed' > POLLING_TIMEOUT
                 /\ outcome' = "rejected"
      ]_vars

\* a read has reported a failed condition and the loop is reading again
C26_Witness ==
    /\ pc = "getService"
    /\ status = "CONDITION_FAILED"
    /\ HasConditions
    /\ LastKnownState = "CONDITION_FAILED"
    /\ Len(calls) >= 3
    /\ calls[Len(calls)].api = "getService"
    /\ calls[Len(calls)].result = "pending"

(***************************************************************************)
(* The volumes of the service deploy() submits.                            *)
(***************************************************************************)
\* the create request is issued
Submitted == Len(calls) >= 1 /\ calls[1].api = "createService"

\* the volume mounts of the container of the submitted service: none when
\* the key is absent
SubmittedMounts == calls[1].service.template.containers[1].volumeMounts.entries

\* the volume definitions of the submitted service
SubmittedVolumes == calls[1].service.template.volumes

\* C27: the volume mounts of the container are the mounts of the declared
\* secrets in their order (the configured mount path or /secrets/{name},
\* always read-only), followed by the mounts of the declared volumes in their
\* order (the declared path, read-only exactly when the type is read-only),
\* whether the lists of secrets and of volumes are empty or not.
C27_MountsSecretsThenVolumes ==
    Submitted =>
        /\ Len(SubmittedMounts) = Len(config.secrets) + Len(config.volumes)
        /\ calls[1].service.template.containers[1].volumeMounts.present
              <=> (config.secrets # <<>> \/ config.volumes # <<>>)
        /\ \A k \in DOMAIN config.secrets :
              /\ SubmittedMounts[k].mountPath =
                    (IF config.secrets[k].mount_path # ""
                     THEN config.secrets[k].mount_path
                     ELSE "/secrets/" \o config.secrets[k].name)
              /\ SubmittedMounts[k].readOnly
        /\ \A k \in DOMAIN config.volumes :
              /\ SubmittedMounts[Len(config.secrets) + k].name = config.volumes[k].name
              /\ SubmittedMounts[Len(config.secrets) + k].mountPath = config.volumes[k].path
              /\ SubmittedMounts[Len(config.secrets) + k].readOnly
                    <=> config.volumes[k].type = "read-only"

\* a service with two secrets, one of them on its default path, and two
\* volumes, one of them read-only, is submitted
C27_Witness ==
    /\ Submitted
    /\ Len(config.secrets) = 2
    /\ Len(config.volumes) = 2
    /\ config.secrets[1].mount_path = ""
    /\ config.secrets[2].mount_path # ""
    /\ config.volumes[1].type = "read-write"
    /\ config.volumes[2].type = "read-only"
    /\ Len(SubmittedMounts) = 4

\* C28: the volume definitions mirror the volume mounts one to one: the i-th
\* mount and the i-th definition carry the same name, which for a secret is
\* its sanitized name, so that every mount refers to a defined volume.
C28_DefinitionsMirrorMounts ==
    Submitted =>
        /\ Len(SubmittedVolumes) = Len(SubmittedMounts)
        /\ \A k \in DOMAIN SubmittedMounts :
              SubmittedMounts[k].name = SubmittedVolumes[k].name
        /\ \A k \in DOMAIN config.secrets :
              /\ SubmittedMounts[k].name = sanitize(config.secrets[k].name)
              /\ SubmittedVolumes[k].name = sanitize(config.secrets[k].name)
        /\ \A k \in DOMAIN SubmittedMounts :
              \E j \in DOMAIN SubmittedVolumes :
                  SubmittedVolumes[j].name = SubmittedMounts[k].name

\* C29: sanitizing a secret name twice gives what sanitizing it once gives,
\* and the sanitized name, the one the submitted volume carries, has no
\* character outside of [A-Za-z0-9_-].
C29_SanitizeIdempotent ==
    Submitted =>
        \A k \in DOMAIN config.secrets :
            LET once == sanitize(config.secrets[k].name)
            IN  /\ SubmittedVolumes[k].name = once
                /\ sanitize(once) = once
                /\ Len(once) = Len(config.secrets[k].name)
                /\ \A i \in 1..Len(once) : CharAt(once, i) \in NameChars

\* a secret whose name has characters to replace is submitted
C29_Witness ==
    /\ Submitted
    /\ Len(config.secrets) = 1
    /\ config.secrets[1].name = "a./"
    /\ SubmittedVolumes[1].name = "a__"

\* C30: for every declared secret the volume definition's name and its
\* secret reference are the same string, the sanitized name of the secret.
C30_SecretVolumeNameIsReference ==
    Submitted =>
        \A k \in DOMAIN config.secrets :
            /\ SubmittedVolumes[k].name = SubmittedVolumes[k].secret.secret
            /\ SubmittedVolumes[k].secret.secret = sanitize(config.secrets[k].name)

\* the second of two secrets has a dot in its name, replaced in its reference
C30_Witness ==
    /\ Submitted
    /\ Len(config.secrets) = 2
    /\ Len(config.volumes) = 1
    /\ config.secrets[2].name = "db.password"
    /\ SubmittedVolumes[2].secret.secret = "db_password"
    /\ SubmittedVolumes[2].name = "db_password"

(***************************************************************************)
(* The names of the submitted volume definitions.                          *)
(***************************************************************************)
\* the names a configuration declares: those of its secrets, then those of
\* its volumes
DeclaredNames(c) ==
    [k \in DOMAIN c.secrets |-> c.secrets[k].name]
        \o [k \in DOMAIN c.volumes |-> c.volumes[k].name]

PairwiseDistinct(names) ==
    \A i, j \in DOMAIN names : i # j => names[i] # names[j]

\* C31: the names of the volume definitions of a submitted service are
\* pairwise distinct, for every configuration whose secrets and volumes are
\* declared under pairwise distinct names: no two secrets share a sanitized
\* name and no sanitized secret name is the name of a declared volume.
C31_VolumeNamesDistinct ==
    (Submitted /\ PairwiseDistinct(DeclaredNames(config))) =>
        PairwiseDistinct([k \in DOMAIN SubmittedVolumes |-> SubmittedVolumes[k].name])

(***************************************************************************)
(* Validation of the environment variables.                                *)
(***************************************************************************)
\* the entry is a literal: it has a value and no valueFrom
LiteralForm(e) == e.hasValue /\ e.value # "" /\ ~e.hasValueFrom

\* the entry is a secret reference: valueFrom.secretKeyRef.name is present,
\* and it has no value
SecretReferenceForm(e) ==
    /\ ~e.hasValue
    /\ e.hasValueFrom
    /\ e.valueFrom.present
    /\ e.valueFrom.secretKeyRef.present
    /\ e.valueFrom.secretKeyRef.name # ""

\* C32: ConfigParser.validate accepts a configuration only if every entry of
\* env_vars has a name and exactly one form, a literal value or a secret
\* reference with valueFrom.secretKeyRef.name; an entry with neither, such as
\* one whose secretKeyRef has no name, is rejected.
C32_EnvVarOneForm ==
    (returned.defined /\ returned.value) =>
        \A k \in DOMAIN config.env_vars.entries :
            /\ config.env_vars.entries[k].name # ""
            /\ \/ LiteralForm(config.env_vars.entries[k])
               \/ SecretReferenceForm(config.env_vars.entries[k])

(***************************************************************************)
(* The error of the timeout.                                               *)
(***************************************************************************)
\* C33: when the timeout is exceeded deploy() fails with the timed-out
\* error, whatever the last status read returned: nothing, a service without
\* a condition list, an empty condition list, one or more conditions.  No
\* other error is raised while the message is built.
C33_TimeoutErrorForEveryRead ==
    (pc = "done" /\ elapsed > POLLING_TIMEOUT) =>
        /\ outcome = "rejected"
        /\ error.type = "Error"
        /\ IsPrefix(TimeoutMessage(config), error.message)

(***************************************************************************)
(* Status reads without conditions.                                        *)
(***************************************************************************)
\* the status read d has no service details or no condition list
NothingPublished(d) == ~d.defined \/ ~d.hasConditions

\* C34: a status read that returns no service details or no condition list
\* is no failure: the loop waits the poll interval and reads again.  The
\* timeout check bounds this path: when no read ever publishes a condition,
\* deploy() ends, and it ends with the timed-out error.
C34_NoConditionsPollsUntilTimeout ==
    /\ [][ (pc = "getService" /\ calls'[Len(calls)].result = "ok"
                /\ NothingPublished(serviceDetails')) =>
              /\ pc' = "pollInterval"
              /\ outcome' = "pending"
              /\ status' = status
              /\ Len(calls') = Len(calls)
              /\ cmds' = cmds
          ]_vars
    /\ []((pc = "done" /\ NoReadFailed /\ status = "UNKNOWN"
                /\ NothingPublished(serviceDetails)) =>
              /\ elapsed > POLLING_TIMEOUT
              /\ outcome = "rejected"
              /\ error = NewError(TimeoutMessage(config)))
    /\ <>(pc = "done")

\* deploy() has timed out on a platform whose last read had no condition list
C34_Witness ==
    /\ pc = "done"
    /\ NoReadFailed
    /\ status = "UNKNOWN"
    /\ serviceDetails.defined
    /\ ~serviceDetails.hasConditions
    /\ elapsed > POLLING_TIMEOUT
    /\ error = NewError(TimeoutMessage(config))

(***************************************************************************)
(* The create request.                                                     *)
(***************************************************************************)
\* C35: when the create request fails, deploy() fails with the error the
\* request failed with, and issues no status read, no setIamPolicy call and
\* no load-balancer command.
C35_CreateFailureEndsDeploy ==
    \A i \in CallsOf("createService") :
        calls[i].result = "error" =>
            /\ pc = "done"
            /\ outcome = "rejected"
            /\ error = calls[i].thrown
            /\ Len(calls) = 1
            /\ cmds = <<>>

\* the platform has refused the create request of a configuration that asks
\* for unauthenticated access and a load balancer
C35_Witness ==
    /\ config.allow_unauthenticated
    /\ config.load_balancer.present
    /\ Len(calls) = 1
    /\ calls[1].api = "createService"
    /\ calls[1].result = "error"
    /\ calls[1].thrown.type = "GoogleError"
    /\ error.code = 5

(***************************************************************************)
(* Provisioning against teardown.                                          *)
(***************************************************************************)
\* the resource a command is about
Resource(cmd) == <<cmd.group, cmd.name>>

\* the resources setupLoadBalancer() has created so far
CreatedResources ==
    {Resource(cmds[i]) :
        i \in {j \in DOMAIN cmds : cmds[j].verb = "create" /\ cmds[j].result = "ok"}}

\* the commands destroy() issues for configuration c from deletion step on;
\* a failed deletion is swallowed, so they depend on the configuration only
RECURSIVE TeardownCommands(_, _)
TeardownCommands(step, c) ==
    IF step = "end" THEN {}
    ELSE {DeleteCommand(step, c)}
            \cup TeardownCommands(NextTeardownStep(step, c.load_balancer.existing), c)

\* the resources destroy() attempts to delete for configuration c
DeletionAttempts(c) ==
    IF ~c.load_balancer.present THEN {}
    ELSE {Resource(d) :
            d \in {x \in TeardownCommands(FirstTeardownStep(c.load_balancer.existing), c) :
                        x.verb = "delete"}}

\* deploy() has resolved after provisioning the load balancer
Provisioned ==
    /\ pc = "done"
    /\ outcome = "resolved"
    /\ config.load_balancer.present

\* C36: the load-balancer resources a fully successful provisioning has
\* created are exactly the resources a destroy of the same configuration
\* attempts to delete, for existing = false and for existing = true.
C36_ProvisionTeardownInverse ==
    Provisioned => CreatedResources = DeletionAttempts(config)

(***************************************************************************)
(* Requests on the service.                                                *)
(***************************************************************************)
\* deploy() has run its validation on the configuration and passed it
ValidationPassed == pc # "start" /\ deployValidation(config) = NoError

\* C37: a deploy() that passes validation issues exactly one create request,
\* as its first request, and never an update or delete request on the
\* service; it does not look for a service of that name first, so it
\* resolves only if the platform accepts the create.
C37_ExactlyOneCreateRequest ==
    ValidationPassed =>
        /\ Cardinality(CallsOf("createService")) = 1
        /\ calls[1].api = "createService"
        /\ calls[1].resource = location(config)
        /\ calls[1].detail = config.name
        /\ CallsOf("updateService") = {}
        /\ CallsOf("deleteService") = {}
        /\ outcome = "resolved" => calls[1].result = "ok"
        /\ calls[1].result = "error" => outcome = "rejected" /\ Len(calls) = 1

\* the platform has refused the create request because a service of that
\* name exists, and deploy() has failed without another request
C37_Witness ==
    /\ ValidationPassed
    /\ pc = "done"
    /\ outcome = "rejected"
    /\ Len(calls) = 1
    /\ calls[1].api = "createService"
    /\ calls[1].result = "error"
    /\ calls[1].thrown.code = 6
====
